---- MODULE Spec2Model ----
(***************************************************************************)
(* A model of notes-app/app/page.tsx: the slug generator `slugify`, the    *)
(* authored Content Model `topics`, and the renderer `Home`.               *)
(*                                                                         *)
(* A JavaScript string is modelled as the sequence of its UTF-16 code      *)
(* units (integers): titles, which slugify works on, and the prose that    *)
(* the renderer only copies (summaries, notes, captions, code).            *)
(***************************************************************************)
EXTENDS Integers, Sequences, FiniteSets, TLC

VARIABLES value, slug, again, pc, model, page

vars == <<value, slug, again, pc, model, page>>

(***************************************************************************)
(* Bounds of the model.                                                    *)
(***************************************************************************)
\* Longest enumerated input of slugify.
MaxLen == 4
\* Most topics of an enumerated Content Model.
MaxTopics == 2
\* Most subtopics of an enumerated topic.
MaxSubtopics == 2

\* All sequences over S of length at most n.
BoundedSeq(S, n) == UNION {[1..k -> S] : k \in 0..n}

(***************************************************************************)
(* Characters.  Hyphen is the code unit 45, "#" is 35.                     *)
(***************************************************************************)
\* The class [a-z0-9] of both regular expressions' complement (line 757).
IsSlugChar(c) == c \in 97..122 \/ c \in 48..57

\* The class [A-Za-z0-9]: an ASCII letter or digit.
IsAsciiAlnum(c) == IsSlugChar(c) \/ c \in 65..90

\* The code units enumerated as slugify's input: space, "-", "2", "A", "_",
\* "a", U+00C9 (E acute), U+0130 (I with dot above), U+212A (Kelvin sign).
Alphabet == {32, 45, 50, 65, 95, 97, 201, 304, 8490}

\* Code units of the context-dependent cases of toLowerCase: space, full
\* stop (case-ignorable), "A", capital sigma U+03A3, and the two surrogates
\* of U+10400 (a capital letter outside the Basic Multilingual Plane).
CaseAlphabet == {32, 46, 65, 931, 55297, 56320}

(***************************************************************************)
(* slugify (page.tsx lines 754-758).                                       *)
(***************************************************************************)
(* value.toLowerCase() (line 756) is the locale-independent lowercasing of *)
(* ECMAScript: the string is read as code points (a high surrogate         *)
(* followed by a low surrogate is one code point, any other code unit is   *)
(* its own), each code point takes its Unicode lowercase mapping, with the *)
(* language-independent rules of SpecialCasing (U+0130, and the final      *)
(* sigma), and the result is written back as code units.  The tables are   *)
(* those of the Unicode Character Database, version 17.0.                  *)
(***************************************************************************)
\* The simple lowercase mappings of the Unicode Character Database, as
\* <<first, last, step, delta>>: the code points first, first + step, ...,
\* last each lowercase to themselves plus delta.
LowerRanges ==
  {
    <<65, 90, 1, 32>>, <<192, 214, 1, 32>>, <<216, 222, 1, 32>>,
    <<256, 302, 2, 1>>, <<306, 310, 2, 1>>, <<313, 327, 2, 1>>,
    <<330, 374, 2, 1>>, <<376, 376, 1, -121>>, <<377, 381, 2, 1>>,
    <<385, 385, 1, 210>>, <<386, 388, 2, 1>>, <<390, 390, 1, 206>>,
    <<391, 391, 1, 1>>, <<393, 394, 1, 205>>, <<395, 395, 1, 1>>,
    <<398, 398, 1, 79>>, <<399, 399, 1, 202>>, <<400, 400, 1, 203>>,
    <<401, 401, 1, 1>>, <<403, 403, 1, 205>>, <<404, 404, 1, 207>>,
    <<406, 406, 1, 211>>, <<407, 407, 1, 209>>, <<408, 408, 1, 1>>,
    <<412, 412, 1, 211>>, <<413, 413, 1, 213>>, <<415, 415, 1, 214>>,
    <<416, 420, 2, 1>>, <<422, 422, 1, 218>>, <<423, 423, 1, 1>>,
    <<425, 425, 1, 218>>, <<428, 428, 1, 1>>, <<430, 430, 1, 218>>,
    <<431, 431, 1, 1>>, <<433, 434, 1, 217>>, <<435, 437, 2, 1>>,
    <<439, 439, 1, 219>>, <<440, 440, 1, 1>>, <<444, 444, 1, 1>>,
    <<452, 452, 1, 2>>, <<453, 453, 1, 1>>, <<455, 455, 1, 2>>,
    <<456, 456, 1, 1>>, <<458, 458, 1, 2>>, <<459, 475, 2, 1>>,
    <<478, 494, 2, 1>>, <<497, 497, 1, 2>>, <<498, 500, 2, 1>>,
    <<502, 502, 1, -97>>, <<503, 503, 1, -56>>, <<504, 542, 2, 1>>,
    <<544, 544, 1, -130>>, <<546, 562, 2, 1>>, <<570, 570, 1, 10795>>,
    <<571, 571, 1, 1>>, <<573, 573, 1, -163>>, <<574, 574, 1, 10792>>,
    <<577, 577, 1, 1>>, <<579, 579, 1, -195>>, <<580, 580, 1, 69>>,
    <<581, 581, 1, 71>>, <<582, 590, 2, 1>>, <<880, 882, 2, 1>>,
    <<886, 886, 1, 1>>, <<895, 895, 1, 116>>, <<902, 902, 1, 38>>,
    <<904, 906, 1, 37>>, <<908, 908, 1, 64>>, <<910, 911, 1, 63>>,
    <<913, 929, 1, 32>>, <<931, 939, 1, 32>>, <<975, 975, 1, 8>>,
    <<984, 1006, 2, 1>>, <<1012, 1012, 1, -60>>, <<1015, 1015, 1, 1>>,
    <<1017, 1017, 1, -7>>, <<1018, 1018, 1, 1>>, <<1021, 1023, 1, -130>>,
    <<1024, 1039, 1, 80>>, <<1040, 1071, 1, 32>>, <<1120, 1152, 2, 1>>,
    <<1162, 1214, 2, 1>>, <<1216, 1216, 1, 15>>, <<1217, 1229, 2, 1>>,
    <<1232, 1326, 2, 1>>, <<1329, 1366, 1, 48>>, <<4256, 4293, 1, 7264>>,
    <<4295, 4295, 1, 7264>>, <<4301, 4301, 1, 7264>>,
    <<5024, 5103, 1, 38864>>, <<5104, 5109, 1, 8>>, <<7305, 7305, 1, 1>>,
    <<7312, 7354, 1, -3008>>, <<7357, 7359, 1, -3008>>, <<7680, 7828, 2, 1>>,
    <<7838, 7838, 1, -7615>>, <<7840, 7934, 2, 1>>, <<7944, 7951, 1, -8>>,
    <<7960, 7965, 1, -8>>, <<7976, 7983, 1, -8>>, <<7992, 7999, 1, -8>>,
    <<8008, 8013, 1, -8>>, <<8025, 8025, 1, -8>>, <<8027, 8027, 1, -8>>,
    <<8029, 8029, 1, -8>>, <<8031, 8031, 1, -8>>, <<8040, 8047, 1, -8>>,
    <<8072, 8079, 1, -8>>, <<8088, 8095, 1, -8>>, <<8104, 8111, 1, -8>>,
    <<8120, 8121, 1, -8>>, <<8122, 8123, 1, -74>>, <<8124, 8124, 1, -9>>,
    <<8136, 8139, 1, -86>>, <<8140, 8140, 1, -9>>, <<8152, 8153, 1, -8>>,
    <<8154, 8155, 1, -100>>, <<8168, 8169, 1, -8>>, <<8170, 8171, 1, -112>>,
    <<8172, 8172, 1, -7>>, <<8184, 8185, 1, -128>>, <<8186, 8187, 1, -126>>,
    <<8188, 8188, 1, -9>>, <<8486, 8486, 1, -7517>>, <<8490, 8490, 1, -8383>>,
    <<8491, 8491, 1, -8262>>, <<8498, 8498, 1, 28>>, <<8544, 8559, 1, 16>>,
    <<8579, 8579, 1, 1>>, <<9398, 9423, 1, 26>>, <<11264, 11311, 1, 48>>,
    <<11360, 11360, 1, 1>>, <<11362, 11362, 1, -10743>>,
    <<11363, 11363, 1, -3814>>, <<11364, 11364, 1, -10727>>,
    <<11367, 11371, 2, 1>>, <<11373, 11373, 1, -10780>>,
    <<11374, 11374, 1, -10749>>, <<11375, 11375, 1, -10783>>,
    <<11376, 11376, 1, -10782>>, <<11378, 11378, 1, 1>>,
    <<11381, 11381, 1, 1>>, <<11390, 11391, 1, -10815>>,
    <<11392, 11490, 2, 1>>, <<11499, 11501, 2, 1>>, <<11506, 11506, 1, 1>>,
    <<42560, 42604, 2, 1>>, <<42624, 42650, 2, 1>>, <<42786, 42798, 2, 1>>,
    <<42802, 42862, 2, 1>>, <<42873, 42875, 2, 1>>,
    <<42877, 42877, 1, -35332>>, <<42878, 42886, 2, 1>>,
    <<42891, 42891, 1, 1>>, <<42893, 42893, 1, -42280>>,
    <<42896, 42898, 2, 1>>, <<42902, 42920, 2, 1>>,
    <<42922, 42922, 1, -42308>>, <<42923, 42923, 1, -42319>>,
    <<42924, 42924, 1, -42315>>, <<42925, 42925, 1, -42305>>,
    <<42926, 42926, 1, -42308>>, <<42928, 42928, 1, -42258>>,
    <<42929, 42929, 1, -42282>>, <<42930, 42930, 1, -42261>>,
    <<42931, 42931, 1, 928>>, <<42932, 42946, 2, 1>>,
    <<42948, 42948, 1, -48>>, <<42949, 42949, 1, -42307>>,
    <<42950, 42950, 1, -35384>>, <<42951, 42953, 2, 1>>,
    <<42955, 42955, 1, -42343>>, <<42956, 42956, 1, 1>>,
    <<42958, 42958, 1, 1>>, <<42960, 42960, 1, 1>>, <<42962, 42962, 1, 1>>,
    <<42964, 42964, 1, 1>>, <<42966, 42968, 2, 1>>, <<42970, 42970, 1, 1>>,
    <<42972, 42972, 1, -42561>>, <<42997, 42997, 1, 1>>,
    <<65313, 65338, 1, 32>>, <<66560, 66599, 1, 40>>, <<66736, 66771, 1, 40>>,
    <<66928, 66938, 1, 39>>, <<66940, 66954, 1, 39>>, <<66956, 66962, 1, 39>>,
    <<66964, 66965, 1, 39>>, <<68736, 68786, 1, 64>>, <<68944, 68965, 1, 32>>,
    <<71840, 71871, 1, 32>>, <<93760, 93791, 1, 32>>, <<93856, 93880, 1, 27>>,
    <<125184, 125217, 1, 34>> }

\* The code points with the property Cased, as <<first, last>>.
CasedRanges ==
  {
    <<65, 90>>, <<97, 122>>, <<170, 170>>, <<181, 181>>, <<186, 186>>,
    <<192, 214>>, <<216, 246>>, <<248, 442>>, <<444, 447>>, <<452, 659>>,
    <<662, 696>>, <<704, 705>>, <<736, 740>>, <<837, 837>>, <<880, 883>>,
    <<886, 887>>, <<890, 893>>, <<895, 895>>, <<902, 902>>, <<904, 906>>,
    <<908, 908>>, <<910, 929>>, <<931, 1013>>, <<1015, 1153>>, <<1162, 1327>>,
    <<1329, 1366>>, <<1376, 1416>>, <<4256, 4293>>, <<4295, 4295>>,
    <<4301, 4301>>, <<4304, 4346>>, <<4348, 4351>>, <<5024, 5109>>,
    <<5112, 5117>>, <<7296, 7306>>, <<7312, 7354>>, <<7357, 7359>>,
    <<7424, 7615>>, <<7680, 7957>>, <<7960, 7965>>, <<7968, 8005>>,
    <<8008, 8013>>, <<8016, 8023>>, <<8025, 8025>>, <<8027, 8027>>,
    <<8029, 8029>>, <<8031, 8061>>, <<8064, 8116>>, <<8118, 8124>>,
    <<8126, 8126>>, <<8130, 8132>>, <<8134, 8140>>, <<8144, 8147>>,
    <<8150, 8155>>, <<8160, 8172>>, <<8178, 8180>>, <<8182, 8188>>,
    <<8305, 8305>>, <<8319, 8319>>, <<8336, 8348>>, <<8450, 8450>>,
    <<8455, 8455>>, <<8458, 8467>>, <<8469, 8469>>, <<8473, 8477>>,
    <<8484, 8484>>, <<8486, 8486>>, <<8488, 8488>>, <<8490, 8493>>,
    <<8495, 8500>>, <<8505, 8505>>, <<8508, 8511>>, <<8517, 8521>>,
    <<8526, 8526>>, <<8544, 8575>>, <<8579, 8580>>, <<9398, 9449>>,
    <<11264, 11492>>, <<11499, 11502>>, <<11506, 11507>>, <<11520, 11557>>,
    <<11559, 11559>>, <<11565, 11565>>, <<42560, 42605>>, <<42624, 42653>>,
    <<42786, 42887>>, <<42891, 42894>>, <<42896, 42972>>, <<42993, 42998>>,
    <<43000, 43002>>, <<43824, 43866>>, <<43868, 43881>>, <<43888, 43967>>,
    <<64256, 64262>>, <<64275, 64279>>, <<65313, 65338>>, <<65345, 65370>>,
    <<66560, 66639>>, <<66736, 66771>>, <<66776, 66811>>, <<66928, 66938>>,
    <<66940, 66954>>, <<66956, 66962>>, <<66964, 66965>>, <<66967, 66977>>,
    <<66979, 66993>>, <<66995, 67001>>, <<67003, 67004>>, <<67456, 67456>>,
    <<67459, 67461>>, <<67463, 67504>>, <<67506, 67514>>, <<68736, 68786>>,
    <<68800, 68850>>, <<68944, 68965>>, <<68976, 68997>>, <<71840, 71903>>,
    <<93760, 93823>>, <<93856, 93880>>, <<93883, 93907>>, <<119808, 119892>>,
    <<119894, 119964>>, <<119966, 119967>>, <<119970, 119970>>,
    <<119973, 119974>>, <<119977, 119980>>, <<119982, 119993>>,
    <<119995, 119995>>, <<119997, 120003>>, <<120005, 120069>>,
    <<120071, 120074>>, <<120077, 120084>>, <<120086, 120092>>,
    <<120094, 120121>>, <<120123, 120126>>, <<120128, 120132>>,
    <<120134, 120134>>, <<120138, 120144>>, <<120146, 120485>>,
    <<120488, 120512>>, <<120514, 120538>>, <<120540, 120570>>,
    <<120572, 120596>>, <<120598, 120628>>, <<120630, 120654>>,
    <<120656, 120686>>, <<120688, 120712>>, <<120714, 120744>>,
    <<120746, 120770>>, <<120772, 120779>>, <<122624, 122633>>,
    <<122635, 122654>>, <<122661, 122666>>, <<122928, 122989>>,
    <<125184, 125251>>, <<127280, 127305>>, <<127312, 127337>>,
    <<127344, 127369>> }

\* The code points with the property Case_Ignorable, as <<first, last>>.
CaseIgnorableRanges ==
  {
    <<39, 39>>, <<46, 46>>, <<58, 58>>, <<94, 94>>, <<96, 96>>, <<168, 168>>,
    <<173, 173>>, <<175, 175>>, <<180, 180>>, <<183, 184>>, <<688, 879>>,
    <<884, 885>>, <<890, 890>>, <<900, 901>>, <<903, 903>>, <<1155, 1161>>,
    <<1369, 1369>>, <<1375, 1375>>, <<1425, 1469>>, <<1471, 1471>>,
    <<1473, 1474>>, <<1476, 1477>>, <<1479, 1479>>, <<1524, 1524>>,
    <<1536, 1541>>, <<1552, 1562>>, <<1564, 1564>>, <<1600, 1600>>,
    <<1611, 1631>>, <<1648, 1648>>, <<1750, 1757>>, <<1759, 1768>>,
    <<1770, 1773>>, <<1807, 1807>>, <<1809, 1809>>, <<1840, 1866>>,
    <<1958, 1968>>, <<2027, 2037>>, <<2042, 2042>>, <<2045, 2045>>,
    <<2070, 2093>>, <<2137, 2139>>, <<2184, 2184>>, <<2192, 2193>>,
    <<2199, 2207>>, <<2249, 2306>>, <<2362, 2362>>, <<2364, 2364>>,
    <<2369, 2376>>, <<2381, 2381>>, <<2385, 2391>>, <<2402, 2403>>,
    <<2417, 2417>>, <<2433, 2433>>, <<2492, 2492>>, <<2497, 2500>>,
    <<2509, 2509>>, <<2530, 2531>>, <<2558, 2558>>, <<2561, 2562>>,
    <<2620, 2620>>, <<2625, 2626>>, <<2631, 2632>>, <<2635, 2637>>,
    <<2641, 2641>>, <<2672, 2673>>, <<2677, 2677>>, <<2689, 2690>>,
    <<2748, 2748>>, <<2753, 2757>>, <<2759, 2760>>, <<2765, 2765>>,
    <<2786, 2787>>, <<2810, 2815>>, <<2817, 2817>>, <<2876, 2876>>,
    <<2879, 2879>>, <<2881, 2884>>, <<2893, 2893>>, <<2901, 2902>>,
    <<2914, 2915>>, <<2946, 2946>>, <<3008, 3008>>, <<3021, 3021>>,
    <<3072, 3072>>, <<3076, 3076>>, <<3132, 3132>>, <<3134, 3136>>,
    <<3142, 3144>>, <<3146, 3149>>, <<3157, 3158>>, <<3170, 3171>>,
    <<3201, 3201>>, <<3260, 3260>>, <<3263, 3263>>, <<3270, 3270>>,
    <<3276, 3277>>, <<3298, 3299>>, <<3328, 3329>>, <<3387, 3388>>,
    <<3393, 3396>>, <<3405, 3405>>, <<3426, 3427>>, <<3457, 3457>>,
    <<3530, 3530>>, <<3538, 3540>>, <<3542, 3542>>, <<3633, 3633>>,
    <<3636, 3642>>, <<3654, 3662>>, <<3761, 3761>>, <<3764, 3772>>,
    <<3782, 3782>>, <<3784, 3790>>, <<3864, 3865>>, <<3893, 3893>>,
    <<3895, 3895>>, <<3897, 3897>>, <<3953, 3966>>, <<3968, 3972>>,
    <<3974, 3975>>, <<3981, 3991>>, <<3993, 4028>>, <<4038, 4038>>,
    <<4141, 4144>>, <<4146, 4151>>, <<4153, 4154>>, <<4157, 4158>>,
    <<4184, 4185>>, <<4190, 4192>>, <<4209, 4212>>, <<4226, 4226>>,
    <<4229, 4230>>, <<4237, 4237>>, <<4253, 4253>>, <<4348, 4348>>,
    <<4957, 4959>>, <<5906, 5908>>, <<5938, 5939>>, <<5970, 5971>>,
    <<6002, 6003>>, <<6068, 6069>>, <<6071, 6077>>, <<6086, 6086>>,
    <<6089, 6099>>, <<6103, 6103>>, <<6109, 6109>>, <<6155, 6159>>,
    <<6211, 6211>>, <<6277, 6278>>, <<6313, 6313>>, <<6432, 6434>>,
    <<6439, 6440>>, <<6450, 6450>>, <<6457, 6459>>, <<6679, 6680>>,
    <<6683, 6683>>, <<6742, 6742>>, <<6744, 6750>>, <<6752, 6752>>,
    <<6754, 6754>>, <<6757, 6764>>, <<6771, 6780>>, <<6783, 6783>>,
    <<6823, 6823>>, <<6832, 6877>>, <<6880, 6891>>, <<6912, 6915>>,
    <<6964, 6964>>, <<6966, 6970>>, <<6972, 6972>>, <<6978, 6978>>,
    <<7019, 7027>>, <<7040, 7041>>, <<7074, 7077>>, <<7080, 7081>>,
    <<7083, 7085>>, <<7142, 7142>>, <<7144, 7145>>, <<7149, 7149>>,
    <<7151, 7153>>, <<7212, 7219>>, <<7222, 7223>>, <<7288, 7293>>,
    <<7376, 7378>>, <<7380, 7392>>, <<7394, 7400>>, <<7405, 7405>>,
    <<7412, 7412>>, <<7416, 7417>>, <<7468, 7530>>, <<7544, 7544>>,
    <<7579, 7679>>, <<8125, 8125>>, <<8127, 8129>>, <<8141, 8143>>,
    <<8157, 8159>>, <<8173, 8175>>, <<8189, 8190>>, <<8203, 8207>>,
    <<8216, 8217>>, <<8228, 8228>>, <<8231, 8231>>, <<8234, 8238>>,
    <<8288, 8292>>, <<8294, 8303>>, <<8305, 8305>>, <<8319, 8319>>,
    <<8336, 8348>>, <<8400, 8432>>, <<11388, 11389>>, <<11503, 11505>>,
    <<11631, 11631>>, <<11647, 11647>>, <<11744, 11775>>, <<11823, 11823>>,
    <<12293, 12293>>, <<12330, 12333>>, <<12337, 12341>>, <<12347, 12347>>,
    <<12441, 12446>>, <<12540, 12542>>, <<40981, 40981>>, <<42232, 42237>>,
    <<42508, 42508>>, <<42607, 42610>>, <<42612, 42621>>, <<42623, 42623>>,
    <<42652, 42655>>, <<42736, 42737>>, <<42752, 42785>>, <<42864, 42864>>,
    <<42888, 42890>>, <<42993, 42996>>, <<43000, 43001>>, <<43010, 43010>>,
    <<43014, 43014>>, <<43019, 43019>>, <<43045, 43046>>, <<43052, 43052>>,
    <<43204, 43205>>, <<43232, 43249>>, <<43263, 43263>>, <<43302, 43309>>,
    <<43335, 43345>>, <<43392, 43394>>, <<43443, 43443>>, <<43446, 43449>>,
    <<43452, 43453>>, <<43471, 43471>>, <<43493, 43494>>, <<43561, 43566>>,
    <<43569, 43570>>, <<43573, 43574>>, <<43587, 43587>>, <<43596, 43596>>,
    <<43632, 43632>>, <<43644, 43644>>, <<43696, 43696>>, <<43698, 43700>>,
    <<43703, 43704>>, <<43710, 43711>>, <<43713, 43713>>, <<43741, 43741>>,
    <<43756, 43757>>, <<43763, 43764>>, <<43766, 43766>>, <<43867, 43871>>,
    <<43881, 43883>>, <<44005, 44005>>, <<44008, 44008>>, <<44013, 44013>>,
    <<64286, 64286>>, <<64434, 64450>>, <<65024, 65039>>, <<65043, 65043>>,
    <<65056, 65071>>, <<65106, 65106>>, <<65109, 65109>>, <<65279, 65279>>,
    <<65287, 65287>>, <<65294, 65294>>, <<65306, 65306>>, <<65342, 65342>>,
    <<65344, 65344>>, <<65392, 65392>>, <<65438, 65439>>, <<65507, 65507>>,
    <<65529, 65531>>, <<66045, 66045>>, <<66272, 66272>>, <<66422, 66426>>,
    <<67456, 67461>>, <<67463, 67504>>, <<67506, 67514>>, <<68097, 68099>>,
    <<68101, 68102>>, <<68108, 68111>>, <<68152, 68154>>, <<68159, 68159>>,
    <<68325, 68326>>, <<68900, 68903>>, <<68942, 68942>>, <<68969, 68973>>,
    <<68975, 68975>>, <<69291, 69292>>, <<69317, 69317>>, <<69370, 69375>>,
    <<69446, 69456>>, <<69506, 69509>>, <<69633, 69633>>, <<69688, 69702>>,
    <<69744, 69744>>, <<69747, 69748>>, <<69759, 69761>>, <<69811, 69814>>,
    <<69817, 69818>>, <<69821, 69821>>, <<69826, 69826>>, <<69837, 69837>>,
    <<69888, 69890>>, <<69927, 69931>>, <<69933, 69940>>, <<70003, 70003>>,
    <<70016, 70017>>, <<70070, 70078>>, <<70089, 70092>>, <<70095, 70095>>,
    <<70191, 70193>>, <<70196, 70196>>, <<70198, 70199>>, <<70206, 70206>>,
    <<70209, 70209>>, <<70367, 70367>>, <<70371, 70378>>, <<70400, 70401>>,
    <<70459, 70460>>, <<70464, 70464>>, <<70502, 70508>>, <<70512, 70516>>,
    <<70587, 70592>>, <<70606, 70606>>, <<70608, 70608>>, <<70610, 70610>>,
    <<70625, 70626>>, <<70712, 70719>>, <<70722, 70724>>, <<70726, 70726>>,
    <<70750, 70750>>, <<70835, 70840>>, <<70842, 70842>>, <<70847, 70848>>,
    <<70850, 70851>>, <<71090, 71093>>, <<71100, 71101>>, <<71103, 71104>>,
    <<71132, 71133>>, <<71219, 71226>>, <<71229, 71229>>, <<71231, 71232>>,
    <<71339, 71339>>, <<71341, 71341>>, <<71344, 71349>>, <<71351, 71351>>,
    <<71453, 71453>>, <<71455, 71455>>, <<71458, 71461>>, <<71463, 71467>>,
    <<71727, 71735>>, <<71737, 71738>>, <<71995, 71996>>, <<71998, 71998>>,
    <<72003, 72003>>, <<72148, 72151>>, <<72154, 72155>>, <<72160, 72160>>,
    <<72193, 72202>>, <<72243, 72248>>, <<72251, 72254>>, <<72263, 72263>>,
    <<72273, 72278>>, <<72281, 72283>>, <<72330, 72342>>, <<72344, 72345>>,
    <<72544, 72544>>, <<72546, 72548>>, <<72550, 72550>>, <<72752, 72758>>,
    <<72760, 72765>>, <<72767, 72767>>, <<72850, 72871>>, <<72874, 72880>>,
    <<72882, 72883>>, <<72885, 72886>>, <<73009, 73014>>, <<73018, 73018>>,
    <<73020, 73021>>, <<73023, 73029>>, <<73031, 73031>>, <<73104, 73105>>,
    <<73109, 73109>>, <<73111, 73111>>, <<73177, 73177>>, <<73459, 73460>>,
    <<73472, 73473>>, <<73526, 73530>>, <<73536, 73536>>, <<73538, 73538>>,
    <<73562, 73562>>, <<78896, 78912>>, <<78919, 78933>>, <<90398, 90409>>,
    <<90413, 90415>>, <<92912, 92916>>, <<92976, 92982>>, <<92992, 92995>>,
    <<93504, 93506>>, <<93547, 93548>>, <<94031, 94031>>, <<94095, 94111>>,
    <<94176, 94177>>, <<94179, 94180>>, <<94194, 94195>>, <<110576, 110579>>,
    <<110581, 110587>>, <<110589, 110590>>, <<113821, 113822>>,
    <<113824, 113827>>, <<118528, 118573>>, <<118576, 118598>>,
    <<119143, 119145>>, <<119155, 119170>>, <<119173, 119179>>,
    <<119210, 119213>>, <<119362, 119364>>, <<121344, 121398>>,
    <<121403, 121452>>, <<121461, 121461>>, <<121476, 121476>>,
    <<121499, 121503>>, <<121505, 121519>>, <<122880, 122886>>,
    <<122888, 122904>>, <<122907, 122913>>, <<122915, 122916>>,
    <<122918, 122922>>, <<122928, 122989>>, <<123023, 123023>>,
    <<123184, 123197>>, <<123566, 123566>>, <<123628, 123631>>,
    <<124139, 124143>>, <<124398, 124399>>, <<124643, 124643>>,
    <<124646, 124646>>, <<124654, 124655>>, <<124661, 124661>>,
    <<124671, 124671>>, <<125136, 125142>>, <<125252, 125259>>,
    <<127995, 127999>>, <<917505, 917505>>, <<917536, 917631>>,
    <<917760, 917999>> }

InRange(cp, r) == cp >= r[1] /\ cp <= r[2]

IsCased(cp) == \E r \in CasedRanges : InRange(cp, r)

IsCaseIgnorable(cp) == \E r \in CaseIgnorableRanges : InRange(cp, r)

\* The rows of LowerRanges that hold the code point cp (at most one).
LowerRowsOf(cp) ==
  {r \in LowerRanges : InRange(cp, r) /\ (cp - r[1]) % r[3] = 0}

\* The lowercase mapping of one code point out of context, as a sequence of
\* code points: A-Z take the quick path, U+0130 becomes "i" followed by
\* U+0307 (SpecialCasing), a code point of LowerRanges moves by its delta,
\* and every other code point (digits, punctuation, small letters, a lone
\* surrogate, ...) is its own lowercase.
LowerOf(c) ==
  IF c < 128 THEN (IF c \in 65..90 THEN <<c + 32>> ELSE <<c>>)
  ELSE IF c = 304 THEN <<105, 775>>
  ELSE LET rows == LowerRowsOf(c)
       IN  IF rows = {} THEN <<c>> ELSE <<c + (CHOOSE r \in rows : TRUE)[4]>>

IsHighSurrogate(u) == u \in 55296..56319

IsLowSurrogate(u) == u \in 56320..57343

\* The code points of a string of UTF-16 code units; an unpaired surrogate
\* is kept as a code point of its own.
RECURSIVE CodePoints(_)
CodePoints(s) ==
  IF s = <<>> THEN <<>>
  ELSE IF Len(s) >= 2 /\ IsHighSurrogate(s[1]) /\ IsLowSurrogate(s[2])
  THEN <<65536 + (s[1] - 55296) * 1024 + (s[2] - 56320)>>
       \o CodePoints(SubSeq(s, 3, Len(s)))
  ELSE <<s[1]>> \o CodePoints(Tail(s))

\* The UTF-16 code units of one code point.
CodeUnits(cp) ==
  IF cp < 65536 THEN <<cp>>
  ELSE <<55296 + ((cp - 65536) \div 1024), 56320 + ((cp - 65536) % 1024)>>

\* The last index below i (first index above i, for dir = 1) whose code
\* point is not case-ignorable; 0 when there is none.
RECURSIVE SkipIgnorable(_, _, _)
SkipIgnorable(cps, i, dir) ==
  IF i + dir < 1 \/ i + dir > Len(cps) THEN 0
  ELSE IF IsCaseIgnorable(cps[i + dir]) THEN SkipIgnorable(cps, i + dir, dir)
  ELSE i + dir

\* The Final_Sigma condition of SpecialCasing at index i: a cased letter
\* comes before, over any case-ignorable code points, and no cased letter
\* comes after, over any case-ignorable code points.
FinalSigma(cps, i) ==
  LET before == SkipIgnorable(cps, i, -1)
      after  == SkipIgnorable(cps, i, 1)
  IN  /\ before # 0 /\ IsCased(cps[before])
      /\ after = 0 \/ ~IsCased(cps[after])

\* The lowercase of the code point at index i in its context: U+03A3 in
\* final position becomes U+03C2, everything else takes LowerOf.
LowerAt(cps, i) ==
  IF cps[i] = 931 /\ FinalSigma(cps, i) THEN <<962>> ELSE LowerOf(cps[i])

RECURSIVE UnitsOf(_)
UnitsOf(cps) ==
  IF cps = <<>> THEN <<>> ELSE CodeUnits(Head(cps)) \o UnitsOf(Tail(cps))

RECURSIVE LowerFrom(_, _)
LowerFrom(cps, i) ==
  IF i > Len(cps) THEN <<>>
  ELSE UnitsOf(LowerAt(cps, i)) \o LowerFrom(cps, i + 1)

\* value.toLowerCase()
toLowerCase(s) == LowerFrom(CodePoints(s), 1)

\* Where a greedy match of [^a-z0-9]+ that starts at i ends (first index
\* after it); i itself when s[i] is in [a-z0-9] or i is past the end.
RECURSIVE RunEnd(_, _)
RunEnd(s, i) ==
  IF i <= Len(s) /\ ~IsSlugChar(s[i]) THEN RunEnd(s, i + 1) ELSE i

\* The scan of .replace(/[^a-z0-9]+/g, "-") from index i: a match is
\* replaced by one hyphen and the scan resumes after it; an unmatched code
\* unit is copied.
RECURSIVE ReplaceRunsFrom(_, _)
ReplaceRunsFrom(s, i) ==
  IF i > Len(s) THEN <<>>
  ELSE IF RunEnd(s, i) > i THEN <<45>> \o ReplaceRunsFrom(s, RunEnd(s, i))
  ELSE <<s[i]>> \o ReplaceRunsFrom(s, i + 1)

\* A plausible slip: the regular expression without its "+", so that every
\* code unit outside [a-z0-9] becomes a hyphen of its own.
replaceEachNonSlugChar(s) ==
  [i \in 1..Len(s) |-> IF IsSlugChar(s[i]) THEN s[i] ELSE 45]

\* A plausible slip: the replacement written "" instead of "-", so that the
\* runs outside [a-z0-9] are deleted.
replaceRunsWithNothing(s) == SelectSeq(s, IsSlugChar)

\* .replace(/[^a-z0-9]+/g, "-")
replaceNonSlugRuns(s) == ReplaceRunsFrom(s, 1)

\* Where a greedy match of (^-|-$)+ that starts at p ends: each repetition
\* takes one hyphen that stands at the start of the string (^-) or at its
\* end (-$).
RECURSIVE EdgeEnd(_, _)
EdgeEnd(s, p) ==
  IF p <= Len(s) /\ s[p] = 45 /\ (p = 1 \/ p = Len(s))
  THEN EdgeEnd(s, p + 1)
  ELSE p

\* The scan of .replace(/(^-|-$)+/g, "") from index i.
RECURSIVE StripEdgesFrom(_, _)
StripEdgesFrom(s, i) ==
  IF i > Len(s) THEN <<>>
  ELSE IF EdgeEnd(s, i) > i THEN StripEdgesFrom(s, EdgeEnd(s, i))
  ELSE <<s[i]>> \o StripEdgesFrom(s, i + 1)

\* A plausible slip: the second replace left out.
keepEdgeHyphens(s) == s

\* A plausible slip: the second regular expression written /^-/, so that
\* only a leading hyphen is removed.
stripLeadingHyphen(s) == IF s # <<>> /\ Head(s) = 45 THEN Tail(s) ELSE s

\* .replace(/(^-|-$)+/g, "")
stripEdgeHyphens(s) == StripEdgesFrom(s, 1)

\* A plausible slip: the two replace calls chained in the other order.
slugifyStripFirst(v) ==
  replaceNonSlugRuns(stripEdgeHyphens(toLowerCase(v)))

\* const slugify = (value) => value.toLowerCase().replace(..).replace(..)
slugify(v) == stripEdgeHyphens(replaceNonSlugRuns(toLowerCase(v)))

(***************************************************************************)
(* The authored Content Model (page.tsx lines 21-752).                     *)
(***************************************************************************)
\* A plausible authoring slip: a subtopic that repeats the title of its
\* topic, "1. Array Fundamentals".
topicsWithRepeatedTitle ==
  << [ title |-> <<49, 46, 32, 65, 114, 114, 97, 121, 32, 70, 117, 110, 100, 97, 109, 101, 110, 116, 97, 108, 115>>,
       summary |-> <<85>>,
       subtopics |-> <<
         [ title |-> <<49, 46, 49, 32, 68, 101, 102>>, summary |-> <<65>> ],
         [ title |-> <<49, 46, 32, 65, 114, 114, 97, 121, 32, 70, 117, 110, 100, 97, 109, 101, 110, 116, 97, 108, 115>>,
           summary |-> <<67>> ] >> ],
     [ title |-> <<50, 46, 32, 68, 101, 99>>, summary |-> <<69>>,
       subtopics |-> << >> ] >>

topics ==
  <<
    \* title: "1. Array Fundamentals"
    [ title |-> <<49, 46, 32, 65, 114, 114, 97, 121, 32, 70, 117, 110, 100, 97, 109, 101, 110, 116, 97, 108, 115>>,
      \* summary: "Understand what arrays are in C, how they behave in memory, ...
      summary |-> <<85, 110, 100, 101, 114, 115, 116, 97, 110, 100, 32, 119, 104, 97, 116, 32, 97, 114, 114, 97, 121, 115, 32, 97, 114, 101, 32, 105, 110, 32, 67, 44, 32, 104, 111, 119, 32, 116, 104, 101, 121, 32, 98, 101, 104, 97, 118, 101, 32, 105, 110, 32, 109, 101, 109, 111, 114, 121, 44, 32, 97, 110, 100, 32, 119, 104, 121, 32, 116, 104, 101, 121, 32, 97, 114, 101, 32, 102, 111, 117, 110, 100, 97, 116, 105, 111, 110, 97, 108, 32, 102, 111, 114, 32, 115, 121, 115, 116, 101, 109, 115, 32, 112, 114, 111, 103, 114, 97, 109, 109, 105, 110, 103, 46>>,
      subtopics |-> <<
        \* title: "1.1 Definition and Characteristics"
        [ title |-> <<49, 46, 49, 32, 68, 101, 102, 105, 110, 105, 116, 105, 111, 110, 32, 97, 110, 100, 32, 67, 104, 97, 114, 97, 99, 116, 101, 114, 105, 115, 116, 105, 99, 115>>,
          \* summary: "An array is a contiguous block of memory that stores element...
          summary |-> <<65, 110, 32, 97, 114, 114, 97, 121, 32, 105, 115, 32, 97, 32, 99, 111, 110, 116, 105, 103, 117, 111, 117, 115, 32, 98, 108, 111, 99, 107, 32, 111, 102, 32, 109, 101, 109, 111, 114, 121, 32, 116, 104, 97, 116, 32, 115, 116, 111, 114, 101, 115, 32, 101, 108, 101, 109, 101, 110, 116, 115, 32, 111, 102, 32, 116, 104, 101, 32, 115, 97, 109, 101, 32, 116, 121, 112, 101, 46, 32, 84, 104, 101, 32, 97, 114, 114, 97, 121, 32, 110, 97, 109, 101, 32, 111, 102, 116, 101, 110, 32, 100, 101, 99, 97, 121, 115, 32, 116, 111, 32, 97, 32, 112, 111, 105, 110, 116, 101, 114, 32, 116, 111, 32, 105, 116, 115, 32, 102, 105, 114, 115, 116, 32, 101, 108, 101, 109, 101, 110, 116, 44, 32, 101, 110, 97, 98, 108, 105, 110, 103, 32, 112, 111, 105, 110, 116, 101, 114, 32, 97, 114, 105, 116, 104, 109, 101, 116, 105, 99, 46>>,
          notes |-> <<
            \* note: "Arrays have a fixed size determined at compile time when dec...
            <<65, 114, 114, 97, 121, 115, 32, 104, 97, 118, 101, 32, 97, 32, 102, 105, 120, 101, 100, 32, 115, 105, 122, 101, 32, 100, 101, 116, 101, 114, 109, 105, 110, 101, 100, 32, 97, 116, 32, 99, 111, 109, 112, 105, 108, 101, 32, 116, 105, 109, 101, 32, 119, 104, 101, 110, 32, 100, 101, 99, 108, 97, 114, 101, 100, 32, 119, 105, 116, 104, 32, 97, 32, 99, 111, 110, 115, 116, 97, 110, 116, 32, 101, 120, 112, 114, 101, 115, 115, 105, 111, 110, 32, 108, 101, 110, 103, 116, 104, 46>>,
            \* note: "Indexing starts at 0 and continues sequentially until size -...
            <<73, 110, 100, 101, 120, 105, 110, 103, 32, 115, 116, 97, 114, 116, 115, 32, 97, 116, 32, 48, 32, 97, 110, 100, 32, 99, 111, 110, 116, 105, 110, 117, 101, 115, 32, 115, 101, 113, 117, 101, 110, 116, 105, 97, 108, 108, 121, 32, 117, 110, 116, 105, 108, 32, 115, 105, 122, 101, 32, 45, 32, 49, 46>>,
            \* note: "The compiler does not perform bounds checking, so accessing ...
            <<84, 104, 101, 32, 99, 111, 109, 112, 105, 108, 101, 114, 32, 100, 111, 101, 115, 32, 110, 111, 116, 32, 112, 101, 114, 102, 111, 114, 109, 32, 98, 111, 117, 110, 100, 115, 32, 99, 104, 101, 99, 107, 105, 110, 103, 44, 32, 115, 111, 32, 97, 99, 99, 101, 115, 115, 105, 110, 103, 32, 111, 117, 116, 45, 111, 102, 45, 114, 97, 110, 103, 101, 32, 105, 110, 100, 105, 99, 101, 115, 32, 99, 97, 117, 115, 101, 115, 32, 117, 110, 100, 101, 102, 105, 110, 101, 100, 32, 98, 101, 104, 97, 118, 105, 111, 114, 46>>
          >>,
          code |-> <<
            \* caption: "Visualizing Array Layout"
            [ caption |-> <<86, 105, 115, 117, 97, 108, 105, 122, 105, 110, 103, 32, 65, 114, 114, 97, 121, 32, 76, 97, 121, 111, 117, 116>>,
              \* content: "#include <stdio.h>...
              content |-> <<35, 105, 110, 99, 108, 117, 100, 101, 32, 60, 115, 116, 100, 105, 111, 46, 104, 62, 10, 10, 105, 110, 116, 32, 109, 97, 105, 110, 40, 118, 111, 105, 100, 41, 32, 123, 10, 32, 32, 32, 32, 105, 110, 116, 32, 110, 117, 109, 98, 101, 114, 115, 91, 52, 93, 32, 61, 32, 123, 51, 44, 32, 54, 44, 32, 57, 44, 32, 49, 50, 125, 59, 10, 10, 32, 32, 32, 32, 112, 114, 105, 110, 116, 102, 40, 34, 110, 117, 109, 98, 101, 114, 115, 58, 32, 37, 112, 92, 110, 34, 44, 32, 40, 118, 111, 105, 100, 32, 42, 41, 110, 117, 109, 98, 101, 114, 115, 41, 59, 10, 32, 32, 32, 32, 102, 111, 114, 32, 40, 105, 110, 116, 32, 105, 32, 61, 32, 48, 59, 32, 105, 32, 60, 32, 52, 59, 32, 43, 43, 105, 41, 32, 123, 10, 32, 32, 32, 32, 32, 32, 32, 32, 112, 114, 105, 110, 116, 102, 40, 34, 110, 117, 109, 98, 101, 114, 115, 91, 37, 100, 93, 32, 61, 32, 37, 100, 32, 97, 116, 32, 37, 112, 92, 110, 34, 44, 32, 105, 44, 32, 110, 117, 109, 98, 101, 114, 115, 91, 105, 93, 44, 32, 40, 118, 111, 105, 100, 32, 42, 41, 38, 110, 117, 109, 98, 101, 114, 115, 91, 105, 93, 41, 59, 10, 32, 32, 32, 32, 125, 10, 10, 32, 32, 32, 32, 114, 101, 116, 117, 114, 110, 32, 48, 59, 10, 125>> ]
          >> ],
        \* title: "1.2 Compile-Time vs. Run-Time Size"
        [ title |-> <<49, 46, 50, 32, 67, 111, 109, 112, 105, 108, 101, 45, 84, 105, 109, 101, 32, 118, 115, 46, 32, 82, 117, 110, 45, 84, 105, 109, 101, 32, 83, 105, 122, 101>>,
          \* summary: "C requires the size of a standard array to be known at compi...
          summary |-> <<67, 32, 114, 101, 113, 117, 105, 114, 101, 115, 32, 116, 104, 101, 32, 115, 105, 122, 101, 32, 111, 102, 32, 97, 32, 115, 116, 97, 110, 100, 97, 114, 100, 32, 97, 114, 114, 97, 121, 32, 116, 111, 32, 98, 101, 32, 107, 110, 111, 119, 110, 32, 97, 116, 32, 99, 111, 109, 112, 105, 108, 101, 32, 116, 105, 109, 101, 44, 32, 98, 117, 116, 32, 67, 57, 57, 32, 105, 110, 116, 114, 111, 100, 117, 99, 101, 100, 32, 86, 97, 114, 105, 97, 98, 108, 101, 32, 76, 101, 110, 103, 116, 104, 32, 65, 114, 114, 97, 121, 115, 32, 40, 86, 76, 65, 115, 41, 32, 102, 111, 114, 32, 115, 116, 97, 99, 107, 32, 97, 108, 108, 111, 99, 97, 116, 105, 111, 110, 32, 119, 105, 116, 104, 32, 114, 117, 110, 45, 116, 105, 109, 101, 32, 115, 105, 122, 101, 115, 46>>,
          notes |-> <<
            \* note: "VLAs are optional in C11 and later; many compilers still sup...
            <<86, 76, 65, 115, 32, 97, 114, 101, 32, 111, 112, 116, 105, 111, 110, 97, 108, 32, 105, 110, 32, 67, 49, 49, 32, 97, 110, 100, 32, 108, 97, 116, 101, 114, 59, 32, 109, 97, 110, 121, 32, 99, 111, 109, 112, 105, 108, 101, 114, 115, 32, 115, 116, 105, 108, 108, 32, 115, 117, 112, 112, 111, 114, 116, 32, 116, 104, 101, 109, 44, 32, 98, 117, 116, 32, 112, 111, 114, 116, 97, 98, 105, 108, 105, 116, 121, 32, 109, 97, 121, 32, 115, 117, 102, 102, 101, 114, 46>>,
            \* note: "Stack size is limited; prefer dynamic allocation for large o...
            <<83, 116, 97, 99, 107, 32, 115, 105, 122, 101, 32, 105, 115, 32, 108, 105, 109, 105, 116, 101, 100, 59, 32, 112, 114, 101, 102, 101, 114, 32, 100, 121, 110, 97, 109, 105, 99, 32, 97, 108, 108, 111, 99, 97, 116, 105, 111, 110, 32, 102, 111, 114, 32, 108, 97, 114, 103, 101, 32, 111, 114, 32, 117, 110, 112, 114, 101, 100, 105, 99, 116, 97, 98, 108, 101, 32, 115, 105, 122, 101, 115, 46>>
          >>,
          code |-> <<
            \* caption: "Variable Length Array ...
            [ caption |-> <<86, 97, 114, 105, 97, 98, 108, 101, 32, 76, 101, 110, 103, 116, 104, 32, 65, 114, 114, 97, 121, 32, 40, 86, 76, 65, 41, 32, 69, 120, 97, 109, 112, 108, 101>>,
              \* content: "#include <stdio.h>...
              content |-> <<35, 105, 110, 99, 108, 117, 100, 101, 32, 60, 115, 116, 100, 105, 111, 46, 104, 62, 10, 10, 118, 111, 105, 100, 32, 112, 114, 105, 110, 116, 95, 104, 105, 115, 116, 111, 103, 114, 97, 109, 40, 105, 110, 116, 32, 99, 111, 117, 110, 116, 41, 32, 123, 10, 32, 32, 32, 32, 105, 110, 116, 32, 98, 97, 114, 115, 91, 99, 111, 117, 110, 116, 93, 59, 32, 47, 47, 32, 86, 76, 65, 58, 32, 115, 105, 122, 101, 32, 100, 101, 116, 101, 114, 109, 105, 110, 101, 100, 32, 97, 116, 32, 114, 117, 110, 32, 116, 105, 109, 101, 10, 32, 32, 32, 32, 102, 111, 114, 32, 40, 105, 110, 116, 32, 105, 32, 61, 32, 48, 59, 32, 105, 32, 60, 32, 99, 111, 117, 110, 116, 59, 32, 43, 43, 105, 41, 32, 123, 10, 32, 32, 32, 32, 32, 32, 32, 32, 98, 97, 114, 115, 91, 105, 93, 32, 61, 32, 105, 32, 42, 32, 105, 59, 10, 32, 32, 32, 32, 32, 32, 32, 32, 112, 114, 105, 110, 116, 102, 40, 34, 37, 100, 32, 34, 44, 32, 98, 97, 114, 115, 91, 105, 93, 41, 59, 10, 32, 32, 32, 32, 125, 10, 32, 32, 32, 32, 112, 117, 116, 115, 40, 34, 34, 41, 59, 32, 47, 47, 32, 110, 101, 119, 108, 105, 110, 101, 10, 125, 10, 10, 105, 110, 116, 32, 109, 97, 105, 110, 40, 118, 111, 105, 100, 41, 32, 123, 10, 32, 32, 32, 32, 112, 114, 105, 110, 116, 95, 104, 105, 115, 116, 111, 103, 114, 97, 109, 40, 53, 41, 59, 10, 32, 32, 32, 32, 114, 101, 116, 117, 114, 110, 32, 48, 59, 10, 125>> ]
          >> ]
      >> ],
    \* title: "2. Declaring and Initializing Arrays"
    [ title |-> <<50, 46, 32, 68, 101, 99, 108, 97, 114, 105, 110, 103, 32, 97, 110, 100, 32, 73, 110, 105, 116, 105, 97, 108, 105, 122, 105, 110, 103, 32, 65, 114, 114, 97, 121, 115>>,
      \* summary: "Explore the syntax for declaring arrays, partial initializat...
      summary |-> <<69, 120, 112, 108, 111, 114, 101, 32, 116, 104, 101, 32, 115, 121, 110, 116, 97, 120, 32, 102, 111, 114, 32, 100, 101, 99, 108, 97, 114, 105, 110, 103, 32, 97, 114, 114, 97, 121, 115, 44, 32, 112, 97, 114, 116, 105, 97, 108, 32, 105, 110, 105, 116, 105, 97, 108, 105, 122, 97, 116, 105, 111, 110, 115, 44, 32, 100, 101, 115, 105, 103, 110, 97, 116, 101, 100, 32, 105, 110, 105, 116, 105, 97, 108, 105, 122, 101, 114, 115, 44, 32, 97, 110, 100, 32, 104, 111, 119, 32, 116, 104, 101, 32, 99, 111, 109, 112, 105, 108, 101, 114, 32, 102, 105, 108, 108, 115, 32, 114, 101, 109, 97, 105, 110, 105, 110, 103, 32, 101, 108, 101, 109, 101, 110, 116, 115, 46>>,
      subtopics |-> <<
        \* title: "2.1 Declaration Syntax"
        [ title |-> <<50, 46, 49, 32, 68, 101, 99, 108, 97, 114, 97, 116, 105, 111, 110, 32, 83, 121, 110, 116, 97, 120>>,
          \* summary: "Array declarations specify the element type, the array name,...
          summary |-> <<65, 114, 114, 97, 121, 32, 100, 101, 99, 108, 97, 114, 97, 116, 105, 111, 110, 115, 32, 115, 112, 101, 99, 105, 102, 121, 32, 116, 104, 101, 32, 101, 108, 101, 109, 101, 110, 116, 32, 116, 121, 112, 101, 44, 32, 116, 104, 101, 32, 97, 114, 114, 97, 121, 32, 110, 97, 109, 101, 44, 32, 97, 110, 100, 32, 116, 104, 101, 32, 110, 117, 109, 98, 101, 114, 32, 111, 102, 32, 101, 108, 101, 109, 101, 110, 116, 115, 32, 101, 110, 99, 108, 111, 115, 101, 100, 32, 105, 110, 32, 115, 113, 117, 97, 114, 101, 32, 98, 114, 97, 99, 107, 101, 116, 115, 46>>,
          notes |-> <<
            \* note: "...
            <<96, 105, 110, 116, 32, 115, 99, 111, 114, 101, 115, 91, 49, 48, 93, 59, 96, 32, 100, 101, 99, 108, 97, 114, 101, 115, 32, 115, 112, 97, 99, 101, 32, 102, 111, 114, 32, 116, 101, 110, 32, 96, 105, 110, 116, 96, 32, 118, 97, 108, 117, 101, 115, 32, 105, 110, 105, 116, 105, 97, 108, 105, 122, 101, 100, 32, 119, 105, 116, 104, 32, 105, 110, 100, 101, 116, 101, 114, 109, 105, 110, 97, 116, 101, 32, 99, 111, 110, 116, 101, 110, 116, 115, 46>>,
            \* note: "You can declare and initialize simultaneously using curly br...
            <<89, 111, 117, 32, 99, 97, 110, 32, 100, 101, 99, 108, 97, 114, 101, 32, 97, 110, 100, 32, 105, 110, 105, 116, 105, 97, 108, 105, 122, 101, 32, 115, 105, 109, 117, 108, 116, 97, 110, 101, 111, 117, 115, 108, 121, 32, 117, 115, 105, 110, 103, 32, 99, 117, 114, 108, 121, 32, 98, 114, 97, 99, 101, 115, 46>>
          >>,
          code |-> <<
            \* caption: "Basic Declarations"
            [ caption |-> <<66, 97, 115, 105, 99, 32, 68, 101, 99, 108, 97, 114, 97, 116, 105, 111, 110, 115>>,
              \* content: "int primes[5];            // uninitialized...
              content |-> <<105, 110, 116, 32, 112, 114, 105, 109, 101, 115, 91, 53, 93, 59, 32, 32, 32, 32, 32, 32, 32, 32, 32, 32, 32, 32, 47, 47, 32, 117, 110, 105, 110, 105, 116, 105, 97, 108, 105, 122, 101, 100, 10, 100, 111, 117, 98, 108, 101, 32, 116, 101, 109, 112, 101, 114, 97, 116, 117, 114, 101, 91, 51, 54, 53, 93, 59, 32, 32, 32, 47, 47, 32, 101, 108, 101, 109, 101, 110, 116, 32, 116, 121, 112, 101, 32, 100, 111, 117, 98, 108, 101, 10, 99, 104, 97, 114, 32, 110, 97, 109, 101, 91, 51, 50, 93, 32, 61, 32, 34, 65, 100, 97, 34, 59, 32, 32, 32, 32, 32, 32, 47, 47, 32, 105, 110, 105, 116, 105, 97, 108, 105, 122, 101, 100, 32, 119, 105, 116, 104, 32, 115, 116, 114, 105, 110, 103, 32, 108, 105, 116, 101, 114, 97, 108>> ]
          >> ],
        \* title: "2.2 Initializer Lists"
        [ title |-> <<50, 46, 50, 32, 73, 110, 105, 116, 105, 97, 108, 105, 122, 101, 114, 32, 76, 105, 115, 116, 115>>,
          \* summary: "Initializer lists allow explicit values. Missing elements ar...
          summary |-> <<73, 110, 105, 116, 105, 97, 108, 105, 122, 101, 114, 32, 108, 105, 115, 116, 115, 32, 97, 108, 108, 111, 119, 32, 101, 120, 112, 108, 105, 99, 105, 116, 32, 118, 97, 108, 117, 101, 115, 46, 32, 77, 105, 115, 115, 105, 110, 103, 32, 101, 108, 101, 109, 101, 110, 116, 115, 32, 97, 114, 101, 32, 122, 101, 114, 111, 45, 105, 110, 105, 116, 105, 97, 108, 105, 122, 101, 100, 32, 119, 104, 101, 110, 32, 117, 115, 105, 110, 103, 32, 115, 116, 97, 116, 105, 99, 32, 115, 116, 111, 114, 97, 103, 101, 32, 100, 117, 114, 97, 116, 105, 111, 110, 32, 111, 114, 32, 101, 120, 112, 108, 105, 99, 105, 116, 32, 105, 110, 105, 116, 105, 97, 108, 105, 122, 101, 114, 32, 98, 114, 97, 99, 101, 115, 46>>,
          notes |-> <<
            \* note: "When the array size is omitted, the compiler infers it from ...
            <<87, 104, 101, 110, 32, 116, 104, 101, 32, 97, 114, 114, 97, 121, 32, 115, 105, 122, 101, 32, 105, 115, 32, 111, 109, 105, 116, 116, 101, 100, 44, 32, 116, 104, 101, 32, 99, 111, 109, 112, 105, 108, 101, 114, 32, 105, 110, 102, 101, 114, 115, 32, 105, 116, 32, 102, 114, 111, 109, 32, 116, 104, 101, 32, 110, 117, 109, 98, 101, 114, 32, 111, 102, 32, 105, 110, 105, 116, 105, 97, 108, 105, 122, 101, 114, 32, 101, 108, 101, 109, 101, 110, 116, 115, 46>>,
            \* note: "Designated initializers assign values to specific indices wh...
            <<68, 101, 115, 105, 103, 110, 97, 116, 101, 100, 32, 105, 110, 105, 116, 105, 97, 108, 105, 122, 101, 114, 115, 32, 97, 115, 115, 105, 103, 110, 32, 118, 97, 108, 117, 101, 115, 32, 116, 111, 32, 115, 112, 101, 99, 105, 102, 105, 99, 32, 105, 110, 100, 105, 99, 101, 115, 32, 119, 104, 105, 108, 101, 32, 108, 101, 97, 118, 105, 110, 103, 32, 111, 116, 104, 101, 114, 115, 32, 122, 101, 114, 111, 101, 100, 46>>
          >>,
          code |-> <<
            \* caption: "Inferred Length and Designated Initializers"
            [ caption |-> <<73, 110, 102, 101, 114, 114, 101, 100, 32, 76, 101, 110, 103, 116, 104, 32, 97, 110, 100, 32, 68, 101, 115, 105, 103, 110, 97, 116, 101, 100, 32, 73, 110, 105, 116, 105, 97, 108, 105, 122, 101, 114, 115>>,
              \* content: "#include <stdio.h>...
              content |-> <<35, 105, 110, 99, 108, 117, 100, 101, 32, 60, 115, 116, 100, 105, 111, 46, 104, 62, 10, 10, 105, 110, 116, 32, 109, 97, 105, 110, 40, 118, 111, 105, 100, 41, 32, 123, 10, 32, 32, 32, 32, 105, 110, 116, 32, 102, 105, 98, 111, 110, 97, 99, 99, 105, 91, 93, 32, 61, 32, 123, 48, 44, 32, 49, 44, 32, 49, 44, 32, 50, 44, 32, 51, 44, 32, 53, 44, 32, 56, 125, 59, 10, 32, 32, 32, 32, 105, 110, 116, 32, 119, 101, 101, 107, 100, 97, 121, 115, 91, 55, 93, 32, 61, 32, 123, 91, 48, 93, 32, 61, 32, 49, 44, 32, 91, 54, 93, 32, 61, 32, 55, 125, 59, 10, 10, 32, 32, 32, 32, 112, 114, 105, 110, 116, 102, 40, 34, 102, 105, 98, 111, 110, 97, 99, 99, 105, 32, 104, 97, 115, 32, 37, 122, 117, 32, 101, 108, 101, 109, 101, 110, 116, 115, 92, 110, 34, 44, 32, 115, 105, 122, 101, 111, 102, 32, 102, 105, 98, 111, 110, 97, 99, 99, 105, 32, 47, 32, 115, 105, 122, 101, 111, 102, 32, 42, 102, 105, 98, 111, 110, 97, 99, 99, 105, 41, 59, 10, 32, 32, 32, 32, 102, 111, 114, 32, 40, 115, 105, 122, 101, 95, 116, 32, 105, 32, 61, 32, 48, 59, 32, 105, 32, 60, 32, 55, 59, 32, 43, 43, 105, 41, 32, 123, 10, 32, 32, 32, 32, 32, 32, 32, 32, 112, 114, 105, 110, 116, 102, 40, 34, 119, 101, 101, 107, 100, 97, 121, 115, 91, 37, 122, 117, 93, 32, 61, 32, 37, 100, 92, 110, 34, 44, 32, 105, 44, 32, 119, 101, 101, 107, 100, 97, 121, 115, 91, 105, 93, 41, 59, 10, 32, 32, 32, 32, 125, 10, 32, 32, 32, 32, 114, 101, 116, 117, 114, 110, 32, 48, 59, 10, 125>> ]
          >> ]
      >> ],
    \* title: "3. Memory Layout and Indexing"
    [ title |-> <<51, 46, 32, 77, 101, 109, 111, 114, 121, 32, 76, 97, 121, 111, 117, 116, 32, 97, 110, 100, 32, 73, 110, 100, 101, 120, 105, 110, 103>>,
      \* summary: "Understand how arrays occupy contiguous memory, how ...
      summary |-> <<85, 110, 100, 101, 114, 115, 116, 97, 110, 100, 32, 104, 111, 119, 32, 97, 114, 114, 97, 121, 115, 32, 111, 99, 99, 117, 112, 121, 32, 99, 111, 110, 116, 105, 103, 117, 111, 117, 115, 32, 109, 101, 109, 111, 114, 121, 44, 32, 104, 111, 119, 32, 96, 115, 105, 122, 101, 111, 102, 96, 32, 119, 111, 114, 107, 115, 44, 32, 97, 110, 100, 32, 112, 114, 97, 99, 116, 105, 99, 97, 108, 32, 105, 110, 100, 101, 120, 105, 110, 103, 32, 116, 101, 99, 104, 110, 105, 113, 117, 101, 115, 46>>,
      subtopics |-> <<
        \* title: "3.1 Using sizeof Safely"
        [ title |-> <<51, 46, 49, 32, 85, 115, 105, 110, 103, 32, 115, 105, 122, 101, 111, 102, 32, 83, 97, 102, 101, 108, 121>>,
          \* summary: "...
          summary |-> <<96, 115, 105, 122, 101, 111, 102, 96, 32, 104, 101, 108, 112, 115, 32, 99, 111, 109, 112, 117, 116, 101, 32, 97, 114, 114, 97, 121, 32, 108, 101, 110, 103, 116, 104, 32, 119, 105, 116, 104, 105, 110, 32, 116, 104, 101, 32, 115, 97, 109, 101, 32, 115, 99, 111, 112, 101, 32, 97, 115, 32, 116, 104, 101, 32, 100, 101, 99, 108, 97, 114, 97, 116, 105, 111, 110, 46, 32, 80, 97, 115, 115, 105, 110, 103, 32, 97, 114, 114, 97, 121, 115, 32, 116, 111, 32, 102, 117, 110, 99, 116, 105, 111, 110, 115, 32, 114, 101, 109, 111, 118, 101, 115, 32, 115, 105, 122, 101, 32, 105, 110, 102, 111, 114, 109, 97, 116, 105, 111, 110, 46>>,
          notes |-> <<
            \* note: "...
            <<96, 115, 105, 122, 101, 111, 102, 32, 97, 114, 114, 97, 121, 32, 47, 32, 115, 105, 122, 101, 111, 102, 32, 97, 114, 114, 97, 121, 91, 48, 93, 96, 32, 121, 105, 101, 108, 100, 115, 32, 116, 104, 101, 32, 110, 117, 109, 98, 101, 114, 32, 111, 102, 32, 101, 108, 101, 109, 101, 110, 116, 115, 32, 119, 104, 101, 110, 32, 96, 97, 114, 114, 97, 121, 96, 32, 105, 115, 32, 97, 110, 32, 97, 99, 116, 117, 97, 108, 32, 97, 114, 114, 97, 121, 32, 40, 110, 111, 116, 32, 97, 32, 112, 111, 105, 110, 116, 101, 114, 41, 46>>,
            \* note: "Once an array decays to a pointer ...
            <<79, 110, 99, 101, 32, 97, 110, 32, 97, 114, 114, 97, 121, 32, 100, 101, 99, 97, 121, 115, 32, 116, 111, 32, 97, 32, 112, 111, 105, 110, 116, 101, 114, 32, 40, 101, 46, 103, 46, 44, 32, 119, 104, 101, 110, 32, 112, 97, 115, 115, 101, 100, 32, 116, 111, 32, 97, 32, 102, 117, 110, 99, 116, 105, 111, 110, 41, 44, 32, 96, 115, 105, 122, 101, 111, 102, 96, 32, 114, 101, 116, 117, 114, 110, 115, 32, 116, 104, 101, 32, 112, 111, 105, 110, 116, 101, 114, 32, 115, 105, 122, 101, 32, 105, 110, 115, 116, 101, 97, 100, 46>>
          >>,
          code |-> <<
            \* caption: "Length Calculation Macro"
            [ caption |-> <<76, 101, 110, 103, 116, 104, 32, 67, 97, 108, 99, 117, 108, 97, 116, 105, 111, 110, 32, 77, 97, 99, 114, 111>>,
              \* content: "#include <stdio.h>...
              content |-> <<35, 105, 110, 99, 108, 117, 100, 101, 32, 60, 115, 116, 100, 105, 111, 46, 104, 62, 10, 10, 35, 100, 101, 102, 105, 110, 101, 32, 65, 82, 82, 65, 89, 95, 76, 69, 78, 40, 97, 114, 114, 41, 32, 40, 40, 105, 110, 116, 41, 40, 115, 105, 122, 101, 111, 102, 40, 97, 114, 114, 41, 32, 47, 32, 115, 105, 122, 101, 111, 102, 40, 40, 97, 114, 114, 41, 91, 48, 93, 41, 41, 41, 10, 10, 105, 110, 116, 32, 109, 97, 105, 110, 40, 118, 111, 105, 100, 41, 32, 123, 10, 32, 32, 32, 32, 105, 110, 116, 32, 100, 97, 116, 97, 91, 93, 32, 61, 32, 123, 52, 44, 32, 56, 44, 32, 49, 53, 44, 32, 49, 54, 44, 32, 50, 51, 44, 32, 52, 50, 125, 59, 10, 32, 32, 32, 32, 112, 114, 105, 110, 116, 102, 40, 34, 76, 101, 110, 103, 116, 104, 32, 61, 32, 37, 100, 92, 110, 34, 44, 32, 65, 82, 82, 65, 89, 95, 76, 69, 78, 40, 100, 97, 116, 97, 41, 41, 59, 10, 32, 32, 32, 32, 114, 101, 116, 117, 114, 110, 32, 48, 59, 10, 125>> ]
          >> ],
        \* title: "3.2 Bounds Awareness"
        [ title |-> <<51, 46, 50, 32, 66, 111, 117, 110, 100, 115, 32, 65, 119, 97, 114, 101, 110, 101, 115, 115>>,
          \* summary: "Because C lacks bounds checking, explicit guards are essenti...
          summary |-> <<66, 101, 99, 97, 117, 115, 101, 32, 67, 32, 108, 97, 99, 107, 115, 32, 98, 111, 117, 110, 100, 115, 32, 99, 104, 101, 99, 107, 105, 110, 103, 44, 32, 101, 120, 112, 108, 105, 99, 105, 116, 32, 103, 117, 97, 114, 100, 115, 32, 97, 114, 101, 32, 101, 115, 115, 101, 110, 116, 105, 97, 108, 32, 116, 111, 32, 112, 114, 101, 118, 101, 110, 116, 32, 98, 117, 102, 102, 101, 114, 32, 111, 118, 101, 114, 114, 117, 110, 115, 32, 97, 110, 100, 32, 117, 110, 100, 101, 102, 105, 110, 101, 100, 32, 98, 101, 104, 97, 118, 105, 111, 114, 46>>,
          notes |-> <<
            \* note: "Always validate indices before use, especially when data ori...
            <<65, 108, 119, 97, 121, 115, 32, 118, 97, 108, 105, 100, 97, 116, 101, 32, 105, 110, 100, 105, 99, 101, 115, 32, 98, 101, 102, 111, 114, 101, 32, 117, 115, 101, 44, 32, 101, 115, 112, 101, 99, 105, 97, 108, 108, 121, 32, 119, 104, 101, 110, 32, 100, 97, 116, 97, 32, 111, 114, 105, 103, 105, 110, 97, 116, 101, 115, 32, 102, 114, 111, 109, 32, 117, 115, 101, 114, 32, 105, 110, 112, 117, 116, 32, 111, 114, 32, 101, 120, 116, 101, 114, 110, 97, 108, 32, 115, 111, 117, 114, 99, 101, 115, 46>>,
            \* note: "Prefer iterating with unsigned types like ...
            <<80, 114, 101, 102, 101, 114, 32, 105, 116, 101, 114, 97, 116, 105, 110, 103, 32, 119, 105, 116, 104, 32, 117, 110, 115, 105, 103, 110, 101, 100, 32, 116, 121, 112, 101, 115, 32, 108, 105, 107, 101, 32, 96, 115, 105, 122, 101, 95, 116, 96, 32, 119, 104, 101, 110, 32, 100, 101, 97, 108, 105, 110, 103, 32, 119, 105, 116, 104, 32, 115, 105, 122, 101, 115, 32, 116, 111, 32, 97, 118, 111, 105, 100, 32, 110, 101, 103, 97, 116, 105, 118, 101, 32, 105, 110, 100, 105, 99, 101, 115, 46>>
          >>,
          code |-> <<
            \* caption: "Safe Indexing Wrapper"
            [ caption |-> <<83, 97, 102, 101, 32, 73, 110, 100, 101, 120, 105, 110, 103, 32, 87, 114, 97, 112, 112, 101, 114>>,
              \* content: "#include <stdbool.h>...
              content |-> <<35, 105, 110, 99, 108, 117, 100, 101, 32, 60, 115, 116, 100, 98, 111, 111, 108, 46, 104, 62, 10, 35, 105, 110, 99, 108, 117, 100, 101, 32, 60, 115, 116, 100, 105, 111, 46, 104, 62, 10, 10, 98, 111, 111, 108, 32, 97, 114, 114, 97, 121, 95, 103, 101, 116, 40, 99, 111, 110, 115, 116, 32, 105, 110, 116, 32, 42, 97, 114, 114, 44, 32, 115, 105, 122, 101, 95, 116, 32, 108, 101, 110, 103, 116, 104, 44, 32, 115, 105, 122, 101, 95, 116, 32, 105, 110, 100, 101, 120, 44, 32, 105, 110, 116, 32, 42, 111, 117, 116, 95, 118, 97, 108, 117, 101, 41, 32, 123, 10, 32, 32, 32, 32, 105, 102, 32, 40, 105, 110, 100, 101, 120, 32, 62, 61, 32, 108, 101, 110, 103, 116, 104, 41, 32, 123, 10, 32, 32, 32, 32, 32, 32, 32, 32, 114, 101, 116, 117, 114, 110, 32, 102, 97, 108, 115, 101, 59, 10, 32, 32, 32, 32, 125, 10, 32, 32, 32, 32, 42, 111, 117, 116, 95, 118, 97, 108, 117, 101, 32, 61, 32, 97, 114, 114, 91, 105, 110, 100, 101, 120, 93, 59, 10, 32, 32, 32, 32, 114, 101, 116, 117, 114, 110, 32, 116, 114, 117, 101, 59, 10, 125, 10, 10, 105, 110, 116, 32, 109, 97, 105, 110, 40, 118, 111, 105, 100, 41, 32, 123, 10, 32, 32, 32, 32, 105, 110, 116, 32, 118, 97, 108, 117, 101, 115, 91, 93, 32, 61, 32, 123, 49, 48, 44, 32, 50, 48, 44, 32, 51, 48, 44, 32, 52, 48, 125, 59, 10, 32, 32, 32, 32, 105, 110, 116, 32, 114, 101, 115, 117, 108, 116, 59, 10, 10, 32, 32, 32, 32, 105, 102, 32, 40, 97, 114, 114, 97, 121, 95, 103, 101, 116, 40, 118, 97, 108, 117, 101, 115, 44, 32, 52, 44, 32, 50, 44, 32, 38, 114, 101, 115, 117, 108, 116, 41, 41, 32, 123, 10, 32, 32, 32, 32, 32, 32, 32, 32, 112, 114, 105, 110, 116, 102, 40, 34, 118, 97, 108, 117, 101, 115, 91, 50, 93, 32, 61, 32, 37, 100, 92, 110, 34, 44, 32, 114, 101, 115, 117, 108, 116, 41, 59, 10, 32, 32, 32, 32, 125, 32, 101, 108, 115, 101, 32, 123, 10, 32, 32, 32, 32, 32, 32, 32, 32, 112, 117, 116, 115, 40, 34, 73, 110, 100, 101, 120, 32, 111, 117, 116, 32, 111, 102, 32, 114, 97, 110, 103, 101, 34, 41, 59, 10, 32, 32, 32, 32, 125, 10, 32, 32, 32, 32, 114, 101, 116, 117, 114, 110, 32, 48, 59, 10, 125>> ]
          >> ]
      >> ],
    \* title: "4. Core Operations"
    [ title |-> <<52, 46, 32, 67, 111, 114, 101, 32, 79, 112, 101, 114, 97, 116, 105, 111, 110, 115>>,
      \* summary: "Implement traversal, searching, inserting, and deleting elem...
      summary |-> <<73, 109, 112, 108, 101, 109, 101, 110, 116, 32, 116, 114, 97, 118, 101, 114, 115, 97, 108, 44, 32, 115, 101, 97, 114, 99, 104, 105, 110, 103, 44, 32, 105, 110, 115, 101, 114, 116, 105, 110, 103, 44, 32, 97, 110, 100, 32, 100, 101, 108, 101, 116, 105, 110, 103, 32, 101, 108, 101, 109, 101, 110, 116, 115, 32, 117, 115, 105, 110, 103, 32, 109, 97, 110, 117, 97, 108, 32, 108, 111, 111, 112, 115, 32, 98, 101, 99, 97, 117, 115, 101, 32, 97, 114, 114, 97, 121, 115, 32, 104, 97, 118, 101, 32, 102, 105, 120, 101, 100, 32, 108, 101, 110, 103, 116, 104, 46>>,
      subtopics |-> <<
        \* title: "4.1 Traversal and Aggregation"
        [ title |-> <<52, 46, 49, 32, 84, 114, 97, 118, 101, 114, 115, 97, 108, 32, 97, 110, 100, 32, 65, 103, 103, 114, 101, 103, 97, 116, 105, 111, 110>>,
          \* summary: "Use loop constructs to process every element. Aggregations l...
          summary |-> <<85, 115, 101, 32, 108, 111, 111, 112, 32, 99, 111, 110, 115, 116, 114, 117, 99, 116, 115, 32, 116, 111, 32, 112, 114, 111, 99, 101, 115, 115, 32, 101, 118, 101, 114, 121, 32, 101, 108, 101, 109, 101, 110, 116, 46, 32, 65, 103, 103, 114, 101, 103, 97, 116, 105, 111, 110, 115, 32, 108, 105, 107, 101, 32, 115, 117, 109, 32, 111, 114, 32, 97, 118, 101, 114, 97, 103, 101, 32, 114, 101, 113, 117, 105, 114, 101, 32, 105, 116, 101, 114, 97, 116, 105, 110, 103, 32, 111, 118, 101, 114, 32, 116, 104, 101, 32, 99, 111, 109, 112, 108, 101, 116, 101, 32, 97, 114, 114, 97, 121, 46>>,
          notes |-> <<
            \* note: "Prefer ...
            <<80, 114, 101, 102, 101, 114, 32, 96, 115, 105, 122, 101, 95, 116, 96, 32, 102, 111, 114, 32, 108, 111, 111, 112, 32, 99, 111, 117, 110, 116, 101, 114, 115, 32, 116, 111, 32, 109, 97, 116, 99, 104, 32, 116, 104, 101, 32, 116, 121, 112, 101, 32, 114, 101, 116, 117, 114, 110, 101, 100, 32, 98, 121, 32, 96, 115, 105, 122, 101, 111, 102, 96, 32, 99, 111, 109, 112, 117, 116, 97, 116, 105, 111, 110, 115, 46>>,
            \* note: "Do not assume arrays are null-terminated unless they represe...
            <<68, 111, 32, 110, 111, 116, 32, 97, 115, 115, 117, 109, 101, 32, 97, 114, 114, 97, 121, 115, 32, 97, 114, 101, 32, 110, 117, 108, 108, 45, 116, 101, 114, 109, 105, 110, 97, 116, 101, 100, 32, 117, 110, 108, 101, 115, 115, 32, 116, 104, 101, 121, 32, 114, 101, 112, 114, 101, 115, 101, 110, 116, 32, 67, 32, 115, 116, 114, 105, 110, 103, 115, 46>>
          >>,
          code |-> <<
            \* caption: "Sum and Average"
            [ caption |-> <<83, 117, 109, 32, 97, 110, 100, 32, 65, 118, 101, 114, 97, 103, 101>>,
              \* content: "#include <stdio.h>...
              content |-> <<35, 105, 110, 99, 108, 117, 100, 101, 32, 60, 115, 116, 100, 105, 111, 46, 104, 62, 10, 10, 100, 111, 117, 98, 108, 101, 32, 97, 118, 101, 114, 97, 103, 101, 40, 99, 111, 110, 115, 116, 32, 100, 111, 117, 98, 108, 101, 32, 42, 118, 97, 108, 117, 101, 115, 44, 32, 115, 105, 122, 101, 95, 116, 32, 108, 101, 110, 103, 116, 104, 41, 32, 123, 10, 32, 32, 32, 32, 100, 111, 117, 98, 108, 101, 32, 116, 111, 116, 97, 108, 32, 61, 32, 48, 46, 48, 59, 10, 32, 32, 32, 32, 102, 111, 114, 32, 40, 115, 105, 122, 101, 95, 116, 32, 105, 32, 61, 32, 48, 59, 32, 105, 32, 60, 32, 108, 101, 110, 103, 116, 104, 59, 32, 43, 43, 105, 41, 32, 123, 10, 32, 32, 32, 32, 32, 32, 32, 32, 116, 111, 116, 97, 108, 32, 43, 61, 32, 118, 97, 108, 117, 101, 115, 91, 105, 93, 59, 10, 32, 32, 32, 32, 125, 10, 32, 32, 32, 32, 114, 101, 116, 117, 114, 110, 32, 108, 101, 110, 103, 116, 104, 32, 63, 32, 116, 111, 116, 97, 108, 32, 47, 32, 108, 101, 110, 103, 116, 104, 32, 58, 32, 48, 46, 48, 59, 10, 125, 10, 10, 105, 110, 116, 32, 109, 97, 105, 110, 40, 118, 111, 105, 100, 41, 32, 123, 10, 32, 32, 32, 32, 100, 111, 117, 98, 108, 101, 32, 115, 97, 109, 112, 108, 101, 115, 91, 93, 32, 61, 32, 123, 50, 46, 53, 44, 32, 52, 46, 48, 44, 32, 51, 46, 53, 44, 32, 49, 46, 48, 125, 59, 10, 32, 32, 32, 32, 112, 114, 105, 110, 116, 102, 40, 34, 65, 118, 101, 114, 97, 103, 101, 32, 61, 32, 37, 46, 50, 102, 92, 110, 34, 44, 32, 97, 118, 101, 114, 97, 103, 101, 40, 115, 97, 109, 112, 108, 101, 115, 44, 32, 115, 105, 122, 101, 111, 102, 32, 115, 97, 109, 112, 108, 101, 115, 32, 47, 32, 115, 105, 122, 101, 111, 102, 32, 42, 115, 97, 109, 112, 108, 101, 115, 41, 41, 59, 10, 32, 32, 32, 32, 114, 101, 116, 117, 114, 110, 32, 48, 59, 10, 125>> ]
          >> ],
        \* title: "4.2 Searching"
        [ title |-> <<52, 46, 50, 32, 83, 101, 97, 114, 99, 104, 105, 110, 103>>,
          \* summary: "Linear search is straightforward. Binary search reduces comp...
          summary |-> <<76, 105, 110, 101, 97, 114, 32, 115, 101, 97, 114, 99, 104, 32, 105, 115, 32, 115, 116, 114, 97, 105, 103, 104, 116, 102, 111, 114, 119, 97, 114, 100, 46, 32, 66, 105, 110, 97, 114, 121, 32, 115, 101, 97, 114, 99, 104, 32, 114, 101, 100, 117, 99, 101, 115, 32, 99, 111, 109, 112, 108, 101, 120, 105, 116, 121, 32, 102, 111, 114, 32, 115, 111, 114, 116, 101, 100, 32, 97, 114, 114, 97, 121, 115, 32, 98, 117, 116, 32, 114, 101, 113, 117, 105, 114, 101, 115, 32, 109, 97, 110, 117, 97, 108, 32, 105, 109, 112, 108, 101, 109, 101, 110, 116, 97, 116, 105, 111, 110, 32, 111, 114, 32, 96, 60, 115, 116, 100, 108, 105, 98, 46, 104, 62, 96, 32, 117, 116, 105, 108, 105, 116, 105, 101, 115, 46>>,
          notes |-> <<
            \* note: "Return sentinel values ...
            <<82, 101, 116, 117, 114, 110, 32, 115, 101, 110, 116, 105, 110, 101, 108, 32, 118, 97, 108, 117, 101, 115, 32, 40, 101, 46, 103, 46, 44, 32, 96, 45, 49, 96, 41, 32, 111, 114, 32, 117, 115, 101, 32, 96, 98, 111, 111, 108, 96, 32, 111, 117, 116, 115, 32, 116, 111, 32, 115, 105, 103, 110, 97, 108, 32, 115, 117, 99, 99, 101, 115, 115, 46>>,
            \* note: "Remember to validate sorted preconditions when using binary ...
            <<82, 101, 109, 101, 109, 98, 101, 114, 32, 116, 111, 32, 118, 97, 108, 105, 100, 97, 116, 101, 32, 115, 111, 114, 116, 101, 100, 32, 112, 114, 101, 99, 111, 110, 100, 105, 116, 105, 111, 110, 115, 32, 119, 104, 101, 110, 32, 117, 115, 105, 110, 103, 32, 98, 105, 110, 97, 114, 121, 32, 115, 101, 97, 114, 99, 104, 46>>
          >>,
          code |-> <<
            \* caption: "Linear Search Returning Index"
            [ caption |-> <<76, 105, 110, 101, 97, 114, 32, 83, 101, 97, 114, 99, 104, 32, 82, 101, 116, 117, 114, 110, 105, 110, 103, 32, 73, 110, 100, 101, 120>>,
              \* content: "#include <stdio.h>...
              content |-> <<35, 105, 110, 99, 108, 117, 100, 101, 32, 60, 115, 116, 100, 105, 111, 46, 104, 62, 10, 10, 105, 110, 116, 32, 102, 105, 110, 100, 95, 105, 110, 100, 101, 120, 40, 99, 111, 110, 115, 116, 32, 105, 110, 116, 32, 42, 97, 114, 114, 44, 32, 115, 105, 122, 101, 95, 116, 32, 108, 101, 110, 103, 116, 104, 44, 32, 105, 110, 116, 32, 116, 97, 114, 103, 101, 116, 41, 32, 123, 10, 32, 32, 32, 32, 102, 111, 114, 32, 40, 115, 105, 122, 101, 95, 116, 32, 105, 32, 61, 32, 48, 59, 32, 105, 32, 60, 32, 108, 101, 110, 103, 116, 104, 59, 32, 43, 43, 105, 41, 32, 123, 10, 32, 32, 32, 32, 32, 32, 32, 32, 105, 102, 32, 40, 97, 114, 114, 91, 105, 93, 32, 61, 61, 32, 116, 97, 114, 103, 101, 116, 41, 32, 123, 10, 32, 32, 32, 32, 32, 32, 32, 32, 32, 32, 32, 32, 114, 101, 116, 117, 114, 110, 32, 40, 105, 110, 116, 41, 105, 59, 10, 32, 32, 32, 32, 32, 32, 32, 32, 125, 10, 32, 32, 32, 32, 125, 10, 32, 32, 32, 32, 114, 101, 116, 117, 114, 110, 32, 45, 49, 59, 10, 125, 10, 10, 105, 110, 116, 32, 109, 97, 105, 110, 40, 118, 111, 105, 100, 41, 32, 123, 10, 32, 32, 32, 32, 105, 110, 116, 32, 97, 114, 114, 91, 93, 32, 61, 32, 123, 55, 44, 32, 50, 44, 32, 57, 44, 32, 52, 44, 32, 54, 125, 59, 10, 32, 32, 32, 32, 105, 110, 116, 32, 105, 110, 100, 101, 120, 32, 61, 32, 102, 105, 110, 100, 95, 105, 110, 100, 101, 120, 40, 97, 114, 114, 44, 32, 115, 105, 122, 101, 111, 102, 32, 97, 114, 114, 32, 47, 32, 115, 105, 122, 101, 111, 102, 32, 42, 97, 114, 114, 44, 32, 52, 41, 59, 10, 32, 32, 32, 32, 112, 114, 105, 110, 116, 102, 40, 34, 105, 110, 100, 101, 120, 32, 61, 32, 37, 100, 92, 110, 34, 44, 32, 105, 110, 100, 101, 120, 41, 59, 10, 32, 32, 32, 32, 114, 101, 116, 117, 114, 110, 32, 48, 59, 10, 125>> ]
          >> ],
        \* title: "4.3 Insertion and Deletion"
        [ title |-> <<52, 46, 51, 32, 73, 110, 115, 101, 114, 116, 105, 111, 110, 32, 97, 110, 100, 32, 68, 101, 108, 101, 116, 105, 111, 110>>,
          \* summary: "Because arrays are fixed-size, insertion and deletion involv...
          summary |-> <<66, 101, 99, 97, 117, 115, 101, 32, 97, 114, 114, 97, 121, 115, 32, 97, 114, 101, 32, 102, 105, 120, 101, 100, 45, 115, 105, 122, 101, 44, 32, 105, 110, 115, 101, 114, 116, 105, 111, 110, 32, 97, 110, 100, 32, 100, 101, 108, 101, 116, 105, 111, 110, 32, 105, 110, 118, 111, 108, 118, 101, 32, 115, 104, 105, 102, 116, 105, 110, 103, 32, 101, 108, 101, 109, 101, 110, 116, 115, 46, 32, 84, 114, 97, 99, 107, 32, 116, 104, 101, 32, 108, 111, 103, 105, 99, 97, 108, 32, 108, 101, 110, 103, 116, 104, 32, 115, 101, 112, 97, 114, 97, 116, 101, 108, 121, 32, 102, 114, 111, 109, 32, 99, 97, 112, 97, 99, 105, 116, 121, 46>>,
          notes |-> <<
            \* note: "Always check that there is capacity before inserting."
            <<65, 108, 119, 97, 121, 115, 32, 99, 104, 101, 99, 107, 32, 116, 104, 97, 116, 32, 116, 104, 101, 114, 101, 32, 105, 115, 32, 99, 97, 112, 97, 99, 105, 116, 121, 32, 98, 101, 102, 111, 114, 101, 32, 105, 110, 115, 101, 114, 116, 105, 110, 103, 46>>,
            \* note: "When deleting, shift elements left and optionally zero the v...
            <<87, 104, 101, 110, 32, 100, 101, 108, 101, 116, 105, 110, 103, 44, 32, 115, 104, 105, 102, 116, 32, 101, 108, 101, 109, 101, 110, 116, 115, 32, 108, 101, 102, 116, 32, 97, 110, 100, 32, 111, 112, 116, 105, 111, 110, 97, 108, 108, 121, 32, 122, 101, 114, 111, 32, 116, 104, 101, 32, 118, 97, 99, 97, 116, 101, 100, 32, 115, 108, 111, 116, 32, 102, 111, 114, 32, 99, 108, 97, 114, 105, 116, 121, 46>>
          >>,
          code |-> <<
            \* caption: "Manual Insert With Capacity Tracking"
            [ caption |-> <<77, 97, 110, 117, 97, 108, 32, 73, 110, 115, 101, 114, 116, 32, 87, 105, 116, 104, 32, 67, 97, 112, 97, 99, 105, 116, 121, 32, 84, 114, 97, 99, 107, 105, 110, 103>>,
              \* content: "#include <stdio.h>...
              content |-> <<35, 105, 110, 99, 108, 117, 100, 101, 32, 60, 115, 116, 100, 105, 111, 46, 104, 62, 10, 35, 105, 110, 99, 108, 117, 100, 101, 32, 60, 115, 116, 100, 98, 111, 111, 108, 46, 104, 62, 10, 10, 35, 100, 101, 102, 105, 110, 101, 32, 67, 65, 80, 65, 67, 73, 84, 89, 32, 56, 10, 10, 98, 111, 111, 108, 32, 105, 110, 115, 101, 114, 116, 95, 97, 116, 40, 105, 110, 116, 32, 97, 114, 114, 91, 93, 44, 32, 115, 105, 122, 101, 95, 116, 32, 42, 108, 101, 110, 103, 116, 104, 44, 32, 105, 110, 116, 32, 118, 97, 108, 117, 101, 44, 32, 115, 105, 122, 101, 95, 116, 32, 112, 111, 115, 41, 32, 123, 10, 32, 32, 32, 32, 105, 102, 32, 40, 42, 108, 101, 110, 103, 116, 104, 32, 62, 61, 32, 67, 65, 80, 65, 67, 73, 84, 89, 32, 124, 124, 32, 112, 111, 115, 32, 62, 32, 42, 108, 101, 110, 103, 116, 104, 41, 32, 123, 10, 32, 32, 32, 32, 32, 32, 32, 32, 114, 101, 116, 117, 114, 110, 32, 102, 97, 108, 115, 101, 59, 10, 32, 32, 32, 32, 125, 10, 32, 32, 32, 32, 102, 111, 114, 32, 40, 115, 105, 122, 101, 95, 116, 32, 105, 32, 61, 32, 42, 108, 101, 110, 103, 116, 104, 59, 32, 105, 32, 62, 32, 112, 111, 115, 59, 32, 45, 45, 105, 41, 32, 123, 10, 32, 32, 32, 32, 32, 32, 32, 32, 97, 114, 114, 91, 105, 93, 32, 61, 32, 97, 114, 114, 91, 105, 32, 45, 32, 49, 93, 59, 10, 32, 32, 32, 32, 125, 10, 32, 32, 32, 32, 97, 114, 114, 91, 112, 111, 115, 93, 32, 61, 32, 118, 97, 108, 117, 101, 59, 10, 32, 32, 32, 32, 40, 42, 108, 101, 110, 103, 116, 104, 41, 43, 43, 59, 10, 32, 32, 32, 32, 114, 101, 116, 117, 114, 110, 32, 116, 114, 117, 101, 59, 10, 125, 10, 10, 105, 110, 116, 32, 109, 97, 105, 110, 40, 118, 111, 105, 100, 41, 32, 123, 10, 32, 32, 32, 32, 105, 110, 116, 32, 98, 117, 102, 102, 101, 114, 91, 67, 65, 80, 65, 67, 73, 84, 89, 93, 32, 61, 32, 123, 49, 44, 32, 51, 44, 32, 53, 44, 32, 55, 44, 32, 57, 125, 59, 10, 32, 32, 32, 32, 115, 105, 122, 101, 95, 116, 32, 108, 101, 110, 103, 116, 104, 32, 61, 32, 53, 59, 10, 10, 32, 32, 32, 32, 105, 110, 115, 101, 114, 116, 95, 97, 116, 40, 98, 117, 102, 102, 101, 114, 44, 32, 38, 108, 101, 110, 103, 116, 104, 44, 32, 49, 49, 44, 32, 50, 41, 59, 10, 10, 32, 32, 32, 32, 102, 111, 114, 32, 40, 115, 105, 122, 101, 95, 116, 32, 105, 32, 61, 32, 48, 59, 32, 105, 32, 60, 32, 108, 101, 110, 103, 116, 104, 59, 32, 43, 43, 105, 41, 32, 123, 10, 32, 32, 32, 32, 32, 32, 32, 32, 112, 114, 105, 110, 116, 102, 40, 34, 37, 100, 32, 34, 44, 32, 98, 117, 102, 102, 101, 114, 91, 105, 93, 41, 59, 10, 32, 32, 32, 32, 125, 10, 32, 32, 32, 32, 112, 117, 116, 115, 40, 34, 34, 41, 59, 10, 32, 32, 32, 32, 114, 101, 116, 117, 114, 110, 32, 48, 59, 10, 125>> ]
          >> ]
      >> ],
    \* title: "5. Multidimensional Arrays"
    [ title |-> <<53, 46, 32, 77, 117, 108, 116, 105, 100, 105, 109, 101, 110, 115, 105, 111, 110, 97, 108, 32, 65, 114, 114, 97, 121, 115>>,
      \* summary: "C stores multidimensional arrays in row-major order. Subscri...
      summary |-> <<67, 32, 115, 116, 111, 114, 101, 115, 32, 109, 117, 108, 116, 105, 100, 105, 109, 101, 110, 115, 105, 111, 110, 97, 108, 32, 97, 114, 114, 97, 121, 115, 32, 105, 110, 32, 114, 111, 119, 45, 109, 97, 106, 111, 114, 32, 111, 114, 100, 101, 114, 46, 32, 83, 117, 98, 115, 99, 114, 105, 112, 116, 105, 110, 103, 32, 99, 97, 115, 99, 97, 100, 101, 115, 32, 116, 111, 32, 97, 99, 99, 101, 115, 115, 32, 101, 108, 101, 109, 101, 110, 116, 115, 32, 105, 110, 32, 110, 101, 115, 116, 101, 100, 32, 97, 114, 114, 97, 121, 115, 46>>,
      subtopics |-> <<
        \* title: "5.1 Declaration and Initialization"
        [ title |-> <<53, 46, 49, 32, 68, 101, 99, 108, 97, 114, 97, 116, 105, 111, 110, 32, 97, 110, 100, 32, 73, 110, 105, 116, 105, 97, 108, 105, 122, 97, 116, 105, 111, 110>>,
          \* summary: "Each dimension size except the first must be specified when ...
          summary |-> <<69, 97, 99, 104, 32, 100, 105, 109, 101, 110, 115, 105, 111, 110, 32, 115, 105, 122, 101, 32, 101, 120, 99, 101, 112, 116, 32, 116, 104, 101, 32, 102, 105, 114, 115, 116, 32, 109, 117, 115, 116, 32, 98, 101, 32, 115, 112, 101, 99, 105, 102, 105, 101, 100, 32, 119, 104, 101, 110, 32, 112, 97, 115, 115, 105, 110, 103, 32, 116, 111, 32, 102, 117, 110, 99, 116, 105, 111, 110, 115, 46, 32, 73, 110, 105, 116, 105, 97, 108, 105, 122, 97, 116, 105, 111, 110, 32, 99, 97, 110, 32, 102, 108, 97, 116, 116, 101, 110, 32, 111, 114, 32, 110, 101, 115, 116, 32, 98, 114, 97, 99, 101, 115, 46>>,
          notes |-> <<
            \* note: "...
            <<96, 105, 110, 116, 32, 109, 97, 116, 114, 105, 120, 91, 50, 93, 91, 51, 93, 96, 32, 97, 108, 108, 111, 99, 97, 116, 101, 115, 32, 50, 32, 114, 111, 119, 115, 32, 119, 105, 116, 104, 32, 51, 32, 99, 111, 108, 117, 109, 110, 115, 32, 101, 97, 99, 104, 46>>,
            \* note: "Nested initializers clarify row boundaries and reduce mistak...
            <<78, 101, 115, 116, 101, 100, 32, 105, 110, 105, 116, 105, 97, 108, 105, 122, 101, 114, 115, 32, 99, 108, 97, 114, 105, 102, 121, 32, 114, 111, 119, 32, 98, 111, 117, 110, 100, 97, 114, 105, 101, 115, 32, 97, 110, 100, 32, 114, 101, 100, 117, 99, 101, 32, 109, 105, 115, 116, 97, 107, 101, 115, 46>>
          >>,
          code |-> <<
            \* caption: "2D Array Initialization"
            [ caption |-> <<50, 68, 32, 65, 114, 114, 97, 121, 32, 73, 110, 105, 116, 105, 97, 108, 105, 122, 97, 116, 105, 111, 110>>,
              \* content: "#include <stdio.h>...
              content |-> <<35, 105, 110, 99, 108, 117, 100, 101, 32, 60, 115, 116, 100, 105, 111, 46, 104, 62, 10, 10, 105, 110, 116, 32, 109, 97, 105, 110, 40, 118, 111, 105, 100, 41, 32, 123, 10, 32, 32, 32, 32, 105, 110, 116, 32, 109, 97, 116, 114, 105, 120, 91, 50, 93, 91, 51, 93, 32, 61, 32, 123, 10, 32, 32, 32, 32, 32, 32, 32, 32, 123, 49, 44, 32, 50, 44, 32, 51, 125, 44, 10, 32, 32, 32, 32, 32, 32, 32, 32, 123, 52, 44, 32, 53, 44, 32, 54, 125, 10, 32, 32, 32, 32, 125, 59, 10, 10, 32, 32, 32, 32, 102, 111, 114, 32, 40, 115, 105, 122, 101, 95, 116, 32, 114, 111, 119, 32, 61, 32, 48, 59, 32, 114, 111, 119, 32, 60, 32, 50, 59, 32, 43, 43, 114, 111, 119, 41, 32, 123, 10, 32, 32, 32, 32, 32, 32, 32, 32, 102, 111, 114, 32, 40, 115, 105, 122, 101, 95, 116, 32, 99, 111, 108, 32, 61, 32, 48, 59, 32, 99, 111, 108, 32, 60, 32, 51, 59, 32, 43, 43, 99, 111, 108, 41, 32, 123, 10, 32, 32, 32, 32, 32, 32, 32, 32, 32, 32, 32, 32, 112, 114, 105, 110, 116, 102, 40, 34, 37, 100, 32, 34, 44, 32, 109, 97, 116, 114, 105, 120, 91, 114, 111, 119, 93, 91, 99, 111, 108, 93, 41, 59, 10, 32, 32, 32, 32, 32, 32, 32, 32, 125, 10, 32, 32, 32, 32, 32, 32, 32, 32, 112, 117, 116, 115, 40, 34, 34, 41, 59, 10, 32, 32, 32, 32, 125, 10, 32, 32, 32, 32, 114, 101, 116, 117, 114, 110, 32, 48, 59, 10, 125>> ]
          >> ],
        \* title: "5.2 Passing Multidimensional Arrays"
        [ title |-> <<53, 46, 50, 32, 80, 97, 115, 115, 105, 110, 103, 32, 77, 117, 108, 116, 105, 100, 105, 109, 101, 110, 115, 105, 111, 110, 97, 108, 32, 65, 114, 114, 97, 121, 115>>,
          \* summary: "When passing to functions, all but the first dimension must ...
          summary |-> <<87, 104, 101, 110, 32, 112, 97, 115, 115, 105, 110, 103, 32, 116, 111, 32, 102, 117, 110, 99, 116, 105, 111, 110, 115, 44, 32, 97, 108, 108, 32, 98, 117, 116, 32, 116, 104, 101, 32, 102, 105, 114, 115, 116, 32, 100, 105, 109, 101, 110, 115, 105, 111, 110, 32, 109, 117, 115, 116, 32, 98, 101, 32, 102, 105, 120, 101, 100, 32, 115, 111, 32, 116, 104, 101, 32, 99, 111, 109, 112, 105, 108, 101, 114, 32, 99, 97, 110, 32, 99, 111, 109, 112, 117, 116, 101, 32, 114, 111, 119, 32, 111, 102, 102, 115, 101, 116, 115, 46>>,
          notes |-> <<
            \* note: "Use macros or ...
            <<85, 115, 101, 32, 109, 97, 99, 114, 111, 115, 32, 111, 114, 32, 96, 99, 111, 110, 115, 116, 96, 32, 112, 97, 114, 97, 109, 101, 116, 101, 114, 115, 32, 116, 111, 32, 109, 97, 107, 101, 32, 100, 105, 109, 101, 110, 115, 105, 111, 110, 115, 32, 101, 120, 112, 108, 105, 99, 105, 116, 32, 97, 110, 100, 32, 109, 97, 105, 110, 116, 97, 105, 110, 32, 114, 101, 97, 100, 97, 98, 105, 108, 105, 116, 121, 46>>,
            \* note: "Pointer syntax such as ...
            <<80, 111, 105, 110, 116, 101, 114, 32, 115, 121, 110, 116, 97, 120, 32, 115, 117, 99, 104, 32, 97, 115, 32, 96, 105, 110, 116, 32, 40, 42, 109, 97, 116, 114, 105, 120, 41, 91, 51, 93, 96, 32, 100, 101, 99, 108, 97, 114, 101, 115, 32, 97, 32, 112, 111, 105, 110, 116, 101, 114, 32, 116, 111, 32, 97, 110, 32, 97, 114, 114, 97, 121, 32, 111, 102, 32, 51, 32, 105, 110, 116, 101, 103, 101, 114, 115, 46>>
          >>,
          code |-> <<
            \* caption: "Function Receiving 2D Array"
            [ caption |-> <<70, 117, 110, 99, 116, 105, 111, 110, 32, 82, 101, 99, 101, 105, 118, 105, 110, 103, 32, 50, 68, 32, 65, 114, 114, 97, 121>>,
              \* content: "#include <stdio.h>...
              content |-> <<35, 105, 110, 99, 108, 117, 100, 101, 32, 60, 115, 116, 100, 105, 111, 46, 104, 62, 10, 10, 118, 111, 105, 100, 32, 112, 114, 105, 110, 116, 95, 98, 111, 97, 114, 100, 40, 115, 105, 122, 101, 95, 116, 32, 114, 111, 119, 115, 44, 32, 115, 105, 122, 101, 95, 116, 32, 99, 111, 108, 115, 44, 32, 99, 111, 110, 115, 116, 32, 105, 110, 116, 32, 98, 111, 97, 114, 100, 91, 114, 111, 119, 115, 93, 91, 99, 111, 108, 115, 93, 41, 32, 123, 10, 32, 32, 32, 32, 102, 111, 114, 32, 40, 115, 105, 122, 101, 95, 116, 32, 114, 32, 61, 32, 48, 59, 32, 114, 32, 60, 32, 114, 111, 119, 115, 59, 32, 43, 43, 114, 41, 32, 123, 10, 32, 32, 32, 32, 32, 32, 32, 32, 102, 111, 114, 32, 40, 115, 105, 122, 101, 95, 116, 32, 99, 32, 61, 32, 48, 59, 32, 99, 32, 60, 32, 99, 111, 108, 115, 59, 32, 43, 43, 99, 41, 32, 123, 10, 32, 32, 32, 32, 32, 32, 32, 32, 32, 32, 32, 32, 112, 114, 105, 110, 116, 102, 40, 34, 37, 100, 32, 34, 44, 32, 98, 111, 97, 114, 100, 91, 114, 93, 91, 99, 93, 41, 59, 10, 32, 32, 32, 32, 32, 32, 32, 32, 125, 10, 32, 32, 32, 32, 32, 32, 32, 32, 112, 117, 116, 115, 40, 34, 34, 41, 59, 10, 32, 32, 32, 32, 125, 10, 125, 10, 10, 105, 110, 116, 32, 109, 97, 105, 110, 40, 118, 111, 105, 100, 41, 32, 123, 10, 32, 32, 32, 32, 105, 110, 116, 32, 98, 111, 97, 114, 100, 91, 51, 93, 91, 51, 93, 32, 61, 32, 123, 10, 32, 32, 32, 32, 32, 32, 32, 32, 123, 48, 44, 32, 49, 44, 32, 48, 125, 44, 10, 32, 32, 32, 32, 32, 32, 32, 32, 123, 49, 44, 32, 48, 44, 32, 49, 125, 44, 10, 32, 32, 32, 32, 32, 32, 32, 32, 123, 48, 44, 32, 49, 44, 32, 48, 125, 10, 32, 32, 32, 32, 125, 59, 10, 32, 32, 32, 32, 112, 114, 105, 110, 116, 95, 98, 111, 97, 114, 100, 40, 51, 44, 32, 51, 44, 32, 98, 111, 97, 114, 100, 41, 59, 10, 32, 32, 32, 32, 114, 101, 116, 117, 114, 110, 32, 48, 59, 10, 125>> ]
          >> ]
      >> ],
    \* title: "6. Arrays and Pointers"
    [ title |-> <<54, 46, 32, 65, 114, 114, 97, 121, 115, 32, 97, 110, 100, 32, 80, 111, 105, 110, 116, 101, 114, 115>>,
      \* summary: "Array names often decay to pointers, but arrays and pointers...
      summary |-> <<65, 114, 114, 97, 121, 32, 110, 97, 109, 101, 115, 32, 111, 102, 116, 101, 110, 32, 100, 101, 99, 97, 121, 32, 116, 111, 32, 112, 111, 105, 110, 116, 101, 114, 115, 44, 32, 98, 117, 116, 32, 97, 114, 114, 97, 121, 115, 32, 97, 110, 100, 32, 112, 111, 105, 110, 116, 101, 114, 115, 32, 97, 114, 101, 32, 110, 111, 116, 32, 105, 110, 116, 101, 114, 99, 104, 97, 110, 103, 101, 97, 98, 108, 101, 46, 32, 85, 110, 100, 101, 114, 115, 116, 97, 110, 100, 105, 110, 103, 32, 100, 105, 102, 102, 101, 114, 101, 110, 99, 101, 115, 32, 97, 118, 111, 105, 100, 115, 32, 115, 117, 98, 116, 108, 101, 32, 98, 117, 103, 115, 46>>,
      subtopics |-> <<
        \* title: "6.1 Decay and Differences"
        [ title |-> <<54, 46, 49, 32, 68, 101, 99, 97, 121, 32, 97, 110, 100, 32, 68, 105, 102, 102, 101, 114, 101, 110, 99, 101, 115>>,
          \* summary: "An array's name converts to a pointer to its first element i...
          summary |-> <<65, 110, 32, 97, 114, 114, 97, 121, 39, 115, 32, 110, 97, 109, 101, 32, 99, 111, 110, 118, 101, 114, 116, 115, 32, 116, 111, 32, 97, 32, 112, 111, 105, 110, 116, 101, 114, 32, 116, 111, 32, 105, 116, 115, 32, 102, 105, 114, 115, 116, 32, 101, 108, 101, 109, 101, 110, 116, 32, 105, 110, 32, 109, 111, 115, 116, 32, 101, 120, 112, 114, 101, 115, 115, 105, 111, 110, 115, 44, 32, 121, 101, 116, 32, 96, 115, 105, 122, 101, 111, 102, 96, 32, 97, 110, 100, 32, 97, 100, 100, 114, 101, 115, 115, 45, 111, 102, 32, 98, 101, 104, 97, 118, 101, 32, 100, 105, 102, 102, 101, 114, 101, 110, 116, 108, 121, 46>>,
          notes |-> <<
            \* note: "...
            <<96, 115, 105, 122, 101, 111, 102, 32, 97, 114, 114, 97, 121, 96, 32, 121, 105, 101, 108, 100, 115, 32, 116, 104, 101, 32, 101, 110, 116, 105, 114, 101, 32, 97, 114, 114, 97, 121, 32, 115, 105, 122, 101, 44, 32, 119, 104, 105, 108, 101, 32, 96, 115, 105, 122, 101, 111, 102, 32, 112, 111, 105, 110, 116, 101, 114, 96, 32, 103, 105, 118, 101, 115, 32, 112, 111, 105, 110, 116, 101, 114, 32, 115, 105, 122, 101, 46>>,
            \* note: "...
            <<96, 38, 97, 114, 114, 97, 121, 96, 32, 104, 97, 115, 32, 116, 121, 112, 101, 32, 112, 111, 105, 110, 116, 101, 114, 32, 116, 111, 32, 97, 114, 114, 97, 121, 44, 32, 100, 105, 115, 116, 105, 110, 99, 116, 32, 102, 114, 111, 109, 32, 112, 111, 105, 110, 116, 101, 114, 32, 116, 111, 32, 102, 105, 114, 115, 116, 32, 101, 108, 101, 109, 101, 110, 116, 46>>
          >>,
          code |-> <<
            \* caption: "Pointer vs. Array Demonstration"
            [ caption |-> <<80, 111, 105, 110, 116, 101, 114, 32, 118, 115, 46, 32, 65, 114, 114, 97, 121, 32, 68, 101, 109, 111, 110, 115, 116, 114, 97, 116, 105, 111, 110>>,
              \* content: "#include <stdio.h>...
              content |-> <<35, 105, 110, 99, 108, 117, 100, 101, 32, 60, 115, 116, 100, 105, 111, 46, 104, 62, 10, 10, 105, 110, 116, 32, 109, 97, 105, 110, 40, 118, 111, 105, 100, 41, 32, 123, 10, 32, 32, 32, 32, 105, 110, 116, 32, 100, 97, 116, 97, 91, 51, 93, 32, 61, 32, 123, 49, 48, 44, 32, 50, 48, 44, 32, 51, 48, 125, 59, 10, 32, 32, 32, 32, 105, 110, 116, 32, 42, 112, 116, 114, 32, 61, 32, 100, 97, 116, 97, 59, 32, 32, 32, 32, 32, 32, 32, 32, 47, 47, 32, 100, 101, 99, 97, 121, 32, 116, 111, 32, 112, 111, 105, 110, 116, 101, 114, 10, 10, 32, 32, 32, 32, 112, 114, 105, 110, 116, 102, 40, 34, 115, 105, 122, 101, 111, 102, 32, 100, 97, 116, 97, 32, 61, 32, 37, 122, 117, 92, 110, 34, 44, 32, 115, 105, 122, 101, 111, 102, 32, 100, 97, 116, 97, 41, 59, 10, 32, 32, 32, 32, 112, 114, 105, 110, 116, 102, 40, 34, 115, 105, 122, 101, 111, 102, 32, 112, 116, 114, 32, 61, 32, 37, 122, 117, 92, 110, 34, 44, 32, 115, 105, 122, 101, 111, 102, 32, 112, 116, 114, 41, 59, 10, 32, 32, 32, 32, 112, 114, 105, 110, 116, 102, 40, 34, 100, 97, 116, 97, 32, 97, 100, 100, 114, 101, 115, 115, 32, 61, 32, 37, 112, 92, 110, 34, 44, 32, 40, 118, 111, 105, 100, 32, 42, 41, 100, 97, 116, 97, 41, 59, 10, 32, 32, 32, 32, 112, 114, 105, 110, 116, 102, 40, 34, 38, 100, 97, 116, 97, 32, 97, 100, 100, 114, 101, 115, 115, 32, 61, 32, 37, 112, 92, 110, 34, 44, 32, 40, 118, 111, 105, 100, 32, 42, 41, 38, 100, 97, 116, 97, 41, 59, 10, 32, 32, 32, 32, 112, 114, 105, 110, 116, 102, 40, 34, 112, 116, 114, 32, 97, 100, 100, 114, 101, 115, 115, 32, 61, 32, 37, 112, 92, 110, 34, 44, 32, 40, 118, 111, 105, 100, 32, 42, 41, 112, 116, 114, 41, 59, 10, 32, 32, 32, 32, 114, 101, 116, 117, 114, 110, 32, 48, 59, 10, 125>> ]
          >> ],
        \* title: "6.2 Pointer Arithmetic"
        [ title |-> <<54, 46, 50, 32, 80, 111, 105, 110, 116, 101, 114, 32, 65, 114, 105, 116, 104, 109, 101, 116, 105, 99>>,
          \* summary: "Pointer arithmetic respects element size. Incrementing a poi...
          summary |-> <<80, 111, 105, 110, 116, 101, 114, 32, 97, 114, 105, 116, 104, 109, 101, 116, 105, 99, 32, 114, 101, 115, 112, 101, 99, 116, 115, 32, 101, 108, 101, 109, 101, 110, 116, 32, 115, 105, 122, 101, 46, 32, 73, 110, 99, 114, 101, 109, 101, 110, 116, 105, 110, 103, 32, 97, 32, 112, 111, 105, 110, 116, 101, 114, 32, 109, 111, 118, 101, 115, 32, 105, 116, 32, 98, 121, 32, 116, 104, 101, 32, 115, 105, 122, 101, 32, 111, 102, 32, 116, 104, 101, 32, 112, 111, 105, 110, 116, 101, 100, 45, 116, 111, 32, 116, 121, 112, 101, 46>>,
          notes |-> <<
            \* note: "Never increment past the array's end; keep sentinel pointers...
            <<78, 101, 118, 101, 114, 32, 105, 110, 99, 114, 101, 109, 101, 110, 116, 32, 112, 97, 115, 116, 32, 116, 104, 101, 32, 97, 114, 114, 97, 121, 39, 115, 32, 101, 110, 100, 59, 32, 107, 101, 101, 112, 32, 115, 101, 110, 116, 105, 110, 101, 108, 32, 112, 111, 105, 110, 116, 101, 114, 115, 32, 116, 111, 32, 96, 97, 114, 114, 32, 43, 32, 108, 101, 110, 103, 116, 104, 96, 32, 97, 115, 32, 98, 111, 117, 110, 100, 115, 46>>,
            \* note: "Pointer subtraction yields the number of elements between tw...
            <<80, 111, 105, 110, 116, 101, 114, 32, 115, 117, 98, 116, 114, 97, 99, 116, 105, 111, 110, 32, 121, 105, 101, 108, 100, 115, 32, 116, 104, 101, 32, 110, 117, 109, 98, 101, 114, 32, 111, 102, 32, 101, 108, 101, 109, 101, 110, 116, 115, 32, 98, 101, 116, 119, 101, 101, 110, 32, 116, 119, 111, 32, 112, 111, 105, 110, 116, 101, 114, 115, 32, 119, 105, 116, 104, 105, 110, 32, 116, 104, 101, 32, 115, 97, 109, 101, 32, 97, 114, 114, 97, 121, 46>>
          >>,
          code |-> <<
            \* caption: "Iterating with Pointers"
            [ caption |-> <<73, 116, 101, 114, 97, 116, 105, 110, 103, 32, 119, 105, 116, 104, 32, 80, 111, 105, 110, 116, 101, 114, 115>>,
              \* content: "#include <stdio.h>...
              content |-> <<35, 105, 110, 99, 108, 117, 100, 101, 32, 60, 115, 116, 100, 105, 111, 46, 104, 62, 10, 10, 118, 111, 105, 100, 32, 112, 114, 105, 110, 116, 95, 119, 105, 116, 104, 95, 112, 111, 105, 110, 116, 101, 114, 115, 40, 99, 111, 110, 115, 116, 32, 105, 110, 116, 32, 42, 98, 101, 103, 105, 110, 44, 32, 99, 111, 110, 115, 116, 32, 105, 110, 116, 32, 42, 101, 110, 100, 41, 32, 123, 10, 32, 32, 32, 32, 102, 111, 114, 32, 40, 99, 111, 110, 115, 116, 32, 105, 110, 116, 32, 42, 105, 116, 32, 61, 32, 98, 101, 103, 105, 110, 59, 32, 105, 116, 32, 60, 32, 101, 110, 100, 59, 32, 43, 43, 105, 116, 41, 32, 123, 10, 32, 32, 32, 32, 32, 32, 32, 32, 112, 114, 105, 110, 116, 102, 40, 34, 37, 100, 32, 34, 44, 32, 42, 105, 116, 41, 59, 10, 32, 32, 32, 32, 125, 10, 32, 32, 32, 32, 112, 117, 116, 115, 40, 34, 34, 41, 59, 10, 125, 10, 10, 105, 110, 116, 32, 109, 97, 105, 110, 40, 118, 111, 105, 100, 41, 32, 123, 10, 32, 32, 32, 32, 105, 110, 116, 32, 110, 117, 109, 98, 101, 114, 115, 91, 93, 32, 61, 32, 123, 50, 44, 32, 52, 44, 32, 54, 44, 32, 56, 44, 32, 49, 48, 125, 59, 10, 32, 32, 32, 32, 112, 114, 105, 110, 116, 95, 119, 105, 116, 104, 95, 112, 111, 105, 110, 116, 101, 114, 115, 40, 110, 117, 109, 98, 101, 114, 115, 44, 32, 110, 117, 109, 98, 101, 114, 115, 32, 43, 32, 40, 115, 105, 122, 101, 111, 102, 32, 110, 117, 109, 98, 101, 114, 115, 32, 47, 32, 115, 105, 122, 101, 111, 102, 32, 42, 110, 117, 109, 98, 101, 114, 115, 41, 41, 59, 10, 32, 32, 32, 32, 114, 101, 116, 117, 114, 110, 32, 48, 59, 10, 125>> ]
          >> ]
      >> ],
    \* title: "7. Strings as Character Arrays"
    [ title |-> <<55, 46, 32, 83, 116, 114, 105, 110, 103, 115, 32, 97, 115, 32, 67, 104, 97, 114, 97, 99, 116, 101, 114, 32, 65, 114, 114, 97, 121, 115>>,
      \* summary: "C strings are arrays of ...
      summary |-> <<67, 32, 115, 116, 114, 105, 110, 103, 115, 32, 97, 114, 101, 32, 97, 114, 114, 97, 121, 115, 32, 111, 102, 32, 96, 99, 104, 97, 114, 96, 32, 116, 101, 114, 109, 105, 110, 97, 116, 101, 100, 32, 98, 121, 32, 97, 32, 110, 117, 108, 108, 32, 99, 104, 97, 114, 97, 99, 116, 101, 114, 32, 40, 96, 39, 92, 48, 39, 96, 41, 46, 32, 72, 97, 110, 100, 108, 105, 110, 103, 32, 116, 104, 101, 109, 32, 115, 97, 102, 101, 108, 121, 32, 114, 101, 113, 117, 105, 114, 101, 115, 32, 108, 101, 110, 103, 116, 104, 32, 99, 104, 101, 99, 107, 115, 46>>,
      subtopics |-> <<
        \* title: "7.1 Initialization and Literals"
        [ title |-> <<55, 46, 49, 32, 73, 110, 105, 116, 105, 97, 108, 105, 122, 97, 116, 105, 111, 110, 32, 97, 110, 100, 32, 76, 105, 116, 101, 114, 97, 108, 115>>,
          \* summary: "String literals automatically append the null terminator. En...
          summary |-> <<83, 116, 114, 105, 110, 103, 32, 108, 105, 116, 101, 114, 97, 108, 115, 32, 97, 117, 116, 111, 109, 97, 116, 105, 99, 97, 108, 108, 121, 32, 97, 112, 112, 101, 110, 100, 32, 116, 104, 101, 32, 110, 117, 108, 108, 32, 116, 101, 114, 109, 105, 110, 97, 116, 111, 114, 46, 32, 69, 110, 115, 117, 114, 101, 32, 97, 114, 114, 97, 121, 115, 32, 104, 97, 118, 101, 32, 115, 112, 97, 99, 101, 32, 102, 111, 114, 32, 105, 116, 32, 119, 104, 101, 110, 32, 115, 112, 101, 99, 105, 102, 121, 105, 110, 103, 32, 102, 105, 120, 101, 100, 32, 115, 105, 122, 101, 115, 46>>,
          notes |-> <<
            \* note: "...
            <<96, 99, 104, 97, 114, 32, 119, 111, 114, 100, 91, 93, 32, 61, 32, 34, 67, 34, 59, 96, 32, 99, 114, 101, 97, 116, 101, 115, 32, 97, 32, 50, 45, 101, 108, 101, 109, 101, 110, 116, 32, 97, 114, 114, 97, 121, 58, 32, 96, 123, 39, 67, 39, 44, 32, 39, 92, 48, 39, 125, 96, 46>>,
            \* note: "When copying strings, use functions that limit writes, such ...
            <<87, 104, 101, 110, 32, 99, 111, 112, 121, 105, 110, 103, 32, 115, 116, 114, 105, 110, 103, 115, 44, 32, 117, 115, 101, 32, 102, 117, 110, 99, 116, 105, 111, 110, 115, 32, 116, 104, 97, 116, 32, 108, 105, 109, 105, 116, 32, 119, 114, 105, 116, 101, 115, 44, 32, 115, 117, 99, 104, 32, 97, 115, 32, 96, 115, 110, 112, 114, 105, 110, 116, 102, 96, 32, 111, 114, 32, 96, 115, 116, 114, 110, 99, 112, 121, 96, 32, 40, 119, 105, 116, 104, 32, 109, 97, 110, 117, 97, 108, 32, 116, 101, 114, 109, 105, 110, 97, 116, 111, 114, 41, 46>>
          >>,
          code |-> <<
            \* caption: "Safe String Copy Utility"
            [ caption |-> <<83, 97, 102, 101, 32, 83, 116, 114, 105, 110, 103, 32, 67, 111, 112, 121, 32, 85, 116, 105, 108, 105, 116, 121>>,
              \* content: "#include <stdio.h>...
              content |-> <<35, 105, 110, 99, 108, 117, 100, 101, 32, 60, 115, 116, 100, 105, 111, 46, 104, 62, 10, 35, 105, 110, 99, 108, 117, 100, 101, 32, 60, 115, 116, 114, 105, 110, 103, 46, 104, 62, 10, 10, 118, 111, 105, 100, 32, 99, 111, 112, 121, 95, 108, 97, 98, 101, 108, 40, 99, 104, 97, 114, 32, 42, 100, 101, 115, 116, 44, 32, 115, 105, 122, 101, 95, 116, 32, 100, 101, 115, 116, 95, 115, 105, 122, 101, 44, 32, 99, 111, 110, 115, 116, 32, 99, 104, 97, 114, 32, 42, 115, 111, 117, 114, 99, 101, 41, 32, 123, 10, 32, 32, 32, 32, 105, 102, 32, 40, 100, 101, 115, 116, 95, 115, 105, 122, 101, 32, 61, 61, 32, 48, 41, 32, 123, 10, 32, 32, 32, 32, 32, 32, 32, 32, 114, 101, 116, 117, 114, 110, 59, 10, 32, 32, 32, 32, 125, 10, 32, 32, 32, 32, 115, 110, 112, 114, 105, 110, 116, 102, 40, 100, 101, 115, 116, 44, 32, 100, 101, 115, 116, 95, 115, 105, 122, 101, 44, 32, 34, 37, 115, 34, 44, 32, 115, 111, 117, 114, 99, 101, 41, 59, 10, 125, 10, 10, 105, 110, 116, 32, 109, 97, 105, 110, 40, 118, 111, 105, 100, 41, 32, 123, 10, 32, 32, 32, 32, 99, 104, 97, 114, 32, 108, 97, 98, 101, 108, 91, 56, 93, 59, 10, 32, 32, 32, 32, 99, 111, 112, 121, 95, 108, 97, 98, 101, 108, 40, 108, 97, 98, 101, 108, 44, 32, 115, 105, 122, 101, 111, 102, 32, 108, 97, 98, 101, 108, 44, 32, 34, 65, 114, 114, 97, 121, 115, 34, 41, 59, 10, 32, 32, 32, 32, 112, 114, 105, 110, 116, 102, 40, 34, 108, 97, 98, 101, 108, 32, 61, 32, 37, 115, 92, 110, 34, 44, 32, 108, 97, 98, 101, 108, 41, 59, 10, 32, 32, 32, 32, 114, 101, 116, 117, 114, 110, 32, 48, 59, 10, 125>> ]
          >> ],
        \* title: "7.2 Iterating Over Strings"
        [ title |-> <<55, 46, 50, 32, 73, 116, 101, 114, 97, 116, 105, 110, 103, 32, 79, 118, 101, 114, 32, 83, 116, 114, 105, 110, 103, 115>>,
          \* summary: "Terminate loops when the null character is encountered. Avoi...
          summary |-> <<84, 101, 114, 109, 105, 110, 97, 116, 101, 32, 108, 111, 111, 112, 115, 32, 119, 104, 101, 110, 32, 116, 104, 101, 32, 110, 117, 108, 108, 32, 99, 104, 97, 114, 97, 99, 116, 101, 114, 32, 105, 115, 32, 101, 110, 99, 111, 117, 110, 116, 101, 114, 101, 100, 46, 32, 65, 118, 111, 105, 100, 32, 111, 118, 101, 114, 114, 117, 110, 110, 105, 110, 103, 32, 98, 117, 102, 102, 101, 114, 115, 32, 98, 121, 32, 99, 104, 101, 99, 107, 105, 110, 103, 32, 109, 97, 120, 105, 109, 117, 109, 32, 108, 101, 110, 103, 116, 104, 46>>,
          notes |-> <<
            \* note: "Use ...
            <<85, 115, 101, 32, 96, 115, 105, 122, 101, 95, 116, 96, 32, 99, 111, 117, 110, 116, 101, 114, 115, 32, 97, 110, 100, 32, 103, 117, 97, 114, 100, 32, 99, 111, 110, 100, 105, 116, 105, 111, 110, 115, 32, 116, 111, 32, 112, 114, 101, 118, 101, 110, 116, 32, 114, 101, 97, 100, 105, 110, 103, 32, 98, 101, 121, 111, 110, 100, 32, 116, 104, 101, 32, 98, 117, 102, 102, 101, 114, 46>>,
            \* note: "For embedded nulls, treat data as raw arrays rather than C s...
            <<70, 111, 114, 32, 101, 109, 98, 101, 100, 100, 101, 100, 32, 110, 117, 108, 108, 115, 44, 32, 116, 114, 101, 97, 116, 32, 100, 97, 116, 97, 32, 97, 115, 32, 114, 97, 119, 32, 97, 114, 114, 97, 121, 115, 32, 114, 97, 116, 104, 101, 114, 32, 116, 104, 97, 110, 32, 67, 32, 115, 116, 114, 105, 110, 103, 115, 46>>
          >>,
          code |-> <<
            \* caption: "Manual strlen Implementation"
            [ caption |-> <<77, 97, 110, 117, 97, 108, 32, 115, 116, 114, 108, 101, 110, 32, 73, 109, 112, 108, 101, 109, 101, 110, 116, 97, 116, 105, 111, 110>>,
              \* content: "#include <stdio.h>...
              content |-> <<35, 105, 110, 99, 108, 117, 100, 101, 32, 60, 115, 116, 100, 105, 111, 46, 104, 62, 10, 10, 115, 105, 122, 101, 95, 116, 32, 109, 121, 95, 115, 116, 114, 108, 101, 110, 40, 99, 111, 110, 115, 116, 32, 99, 104, 97, 114, 32, 42, 115, 41, 32, 123, 10, 32, 32, 32, 32, 99, 111, 110, 115, 116, 32, 99, 104, 97, 114, 32, 42, 112, 32, 61, 32, 115, 59, 10, 32, 32, 32, 32, 119, 104, 105, 108, 101, 32, 40, 42, 112, 41, 32, 123, 10, 32, 32, 32, 32, 32, 32, 32, 32, 43, 43, 112, 59, 10, 32, 32, 32, 32, 125, 10, 32, 32, 32, 32, 114, 101, 116, 117, 114, 110, 32, 40, 115, 105, 122, 101, 95, 116, 41, 40, 112, 32, 45, 32, 115, 41, 59, 10, 125, 10, 10, 105, 110, 116, 32, 109, 97, 105, 110, 40, 118, 111, 105, 100, 41, 32, 123, 10, 32, 32, 32, 32, 99, 111, 110, 115, 116, 32, 99, 104, 97, 114, 32, 109, 101, 115, 115, 97, 103, 101, 91, 93, 32, 61, 32, 34, 65, 114, 114, 97, 121, 32, 78, 111, 116, 101, 115, 34, 59, 10, 32, 32, 32, 32, 112, 114, 105, 110, 116, 102, 40, 34, 76, 101, 110, 103, 116, 104, 32, 61, 32, 37, 122, 117, 92, 110, 34, 44, 32, 109, 121, 95, 115, 116, 114, 108, 101, 110, 40, 109, 101, 115, 115, 97, 103, 101, 41, 41, 59, 10, 32, 32, 32, 32, 114, 101, 116, 117, 114, 110, 32, 48, 59, 10, 125>> ]
          >> ]
      >> ],
    \* title: "8. Dynamic Arrays"
    [ title |-> <<56, 46, 32, 68, 121, 110, 97, 109, 105, 99, 32, 65, 114, 114, 97, 121, 115>>,
      \* summary: "Use dynamic allocation for arrays whose size is known only a...
      summary |-> <<85, 115, 101, 32, 100, 121, 110, 97, 109, 105, 99, 32, 97, 108, 108, 111, 99, 97, 116, 105, 111, 110, 32, 102, 111, 114, 32, 97, 114, 114, 97, 121, 115, 32, 119, 104, 111, 115, 101, 32, 115, 105, 122, 101, 32, 105, 115, 32, 107, 110, 111, 119, 110, 32, 111, 110, 108, 121, 32, 97, 116, 32, 114, 117, 110, 32, 116, 105, 109, 101, 32, 111, 114, 32, 101, 120, 99, 101, 101, 100, 115, 32, 115, 116, 97, 99, 107, 32, 108, 105, 109, 105, 116, 115, 46>>,
      subtopics |-> <<
        \* title: "8.1 malloc, calloc, and realloc"
        [ title |-> <<56, 46, 49, 32, 109, 97, 108, 108, 111, 99, 44, 32, 99, 97, 108, 108, 111, 99, 44, 32, 97, 110, 100, 32, 114, 101, 97, 108, 108, 111, 99>>,
          \* summary: "...
          summary |-> <<96, 109, 97, 108, 108, 111, 99, 96, 32, 97, 108, 108, 111, 99, 97, 116, 101, 115, 32, 117, 110, 105, 110, 105, 116, 105, 97, 108, 105, 122, 101, 100, 32, 109, 101, 109, 111, 114, 121, 44, 32, 96, 99, 97, 108, 108, 111, 99, 96, 32, 122, 101, 114, 111, 101, 115, 32, 105, 116, 44, 32, 97, 110, 100, 32, 96, 114, 101, 97, 108, 108, 111, 99, 96, 32, 114, 101, 115, 105, 122, 101, 115, 32, 119, 104, 105, 108, 101, 32, 112, 114, 101, 115, 101, 114, 118, 105, 110, 103, 32, 99, 111, 110, 116, 101, 110, 116, 115, 32, 119, 104, 101, 110, 32, 112, 111, 115, 115, 105, 98, 108, 101, 46>>,
          notes |-> <<
            \* note: "Always check allocation results against ...
            <<65, 108, 119, 97, 121, 115, 32, 99, 104, 101, 99, 107, 32, 97, 108, 108, 111, 99, 97, 116, 105, 111, 110, 32, 114, 101, 115, 117, 108, 116, 115, 32, 97, 103, 97, 105, 110, 115, 116, 32, 96, 78, 85, 76, 76, 96, 32, 98, 101, 102, 111, 114, 101, 32, 100, 101, 114, 101, 102, 101, 114, 101, 110, 99, 105, 110, 103, 46>>,
            \* note: "Pair each successful allocation with ...
            <<80, 97, 105, 114, 32, 101, 97, 99, 104, 32, 115, 117, 99, 99, 101, 115, 115, 102, 117, 108, 32, 97, 108, 108, 111, 99, 97, 116, 105, 111, 110, 32, 119, 105, 116, 104, 32, 96, 102, 114, 101, 101, 96, 32, 116, 111, 32, 97, 118, 111, 105, 100, 32, 109, 101, 109, 111, 114, 121, 32, 108, 101, 97, 107, 115, 46>>
          >>,
          code |-> <<
            \* caption: "Resizable Dynamic Array"
            [ caption |-> <<82, 101, 115, 105, 122, 97, 98, 108, 101, 32, 68, 121, 110, 97, 109, 105, 99, 32, 65, 114, 114, 97, 121>>,
              \* content: "#include <stdio.h>...
              content |-> <<35, 105, 110, 99, 108, 117, 100, 101, 32, 60, 115, 116, 100, 105, 111, 46, 104, 62, 10, 35, 105, 110, 99, 108, 117, 100, 101, 32, 60, 115, 116, 100, 108, 105, 98, 46, 104, 62, 10, 10, 116, 121, 112, 101, 100, 101, 102, 32, 115, 116, 114, 117, 99, 116, 32, 123, 10, 32, 32, 32, 32, 105, 110, 116, 32, 42, 100, 97, 116, 97, 59, 10, 32, 32, 32, 32, 115, 105, 122, 101, 95, 116, 32, 108, 101, 110, 103, 116, 104, 59, 10, 32, 32, 32, 32, 115, 105, 122, 101, 95, 116, 32, 99, 97, 112, 97, 99, 105, 116, 121, 59, 10, 125, 32, 73, 110, 116, 86, 101, 99, 116, 111, 114, 59, 10, 10, 105, 110, 116, 32, 118, 101, 99, 116, 111, 114, 95, 112, 117, 115, 104, 40, 73, 110, 116, 86, 101, 99, 116, 111, 114, 32, 42, 118, 101, 99, 44, 32, 105, 110, 116, 32, 118, 97, 108, 117, 101, 41, 32, 123, 10, 32, 32, 32, 32, 105, 102, 32, 40, 118, 101, 99, 45, 62, 108, 101, 110, 103, 116, 104, 32, 61, 61, 32, 118, 101, 99, 45, 62, 99, 97, 112, 97, 99, 105, 116, 121, 41, 32, 123, 10, 32, 32, 32, 32, 32, 32, 32, 32, 115, 105, 122, 101, 95, 116, 32, 110, 101, 119, 95, 99, 97, 112, 97, 99, 105, 116, 121, 32, 61, 32, 118, 101, 99, 45, 62, 99, 97, 112, 97, 99, 105, 116, 121, 32, 63, 32, 118, 101, 99, 45, 62, 99, 97, 112, 97, 99, 105, 116, 121, 32, 42, 32, 50, 32, 58, 32, 52, 59, 10, 32, 32, 32, 32, 32, 32, 32, 32, 105, 110, 116, 32, 42, 110, 101, 119, 95, 100, 97, 116, 97, 32, 61, 32, 114, 101, 97, 108, 108, 111, 99, 40, 118, 101, 99, 45, 62, 100, 97, 116, 97, 44, 32, 110, 101, 119, 95, 99, 97, 112, 97, 99, 105, 116, 121, 32, 42, 32, 115, 105, 122, 101, 111, 102, 32, 42, 110, 101, 119, 95, 100, 97, 116, 97, 41, 59, 10, 32, 32, 32, 32, 32, 32, 32, 32, 105, 102, 32, 40, 33, 110, 101, 119, 95, 100, 97, 116, 97, 41, 32, 123, 10, 32, 32, 32, 32, 32, 32, 32, 32, 32, 32, 32, 32, 114, 101, 116, 117, 114, 110, 32, 45, 49, 59, 10, 32, 32, 32, 32, 32, 32, 32, 32, 125, 10, 32, 32, 32, 32, 32, 32, 32, 32, 118, 101, 99, 45, 62, 100, 97, 116, 97, 32, 61, 32, 110, 101, 119, 95, 100, 97, 116, 97, 59, 10, 32, 32, 32, 32, 32, 32, 32, 32, 118, 101, 99, 45, 62, 99, 97, 112, 97, 99, 105, 116, 121, 32, 61, 32, 110, 101, 119, 95, 99, 97, 112, 97, 99, 105, 116, 121, 59, 10, 32, 32, 32, 32, 125, 10, 32, 32, 32, 32, 118, 101, 99, 45, 62, 100, 97, 116, 97, 91, 118, 101, 99, 45, 62, 108, 101, 110, 103, 116, 104, 43, 43, 93, 32, 61, 32, 118, 97, 108, 117, 101, 59, 10, 32, 32, 32, 32, 114, 101, 116, 117, 114, 110, 32, 48, 59, 10, 125, 10, 10, 118, 111, 105, 100, 32, 118, 101, 99, 116, 111, 114, 95, 102, 114, 101, 101, 40, 73, 110, 116, 86, 101, 99, 116, 111, 114, 32, 42, 118, 101, 99, 41, 32, 123, 10, 32, 32, 32, 32, 102, 114, 101, 101, 40, 118, 101, 99, 45, 62, 100, 97, 116, 97, 41, 59, 10, 32, 32, 32, 32, 118, 101, 99, 45, 62, 100, 97, 116, 97, 32, 61, 32, 78, 85, 76, 76, 59, 10, 32, 32, 32, 32, 118, 101, 99, 45, 62, 108, 101, 110, 103, 116, 104, 32, 61, 32, 118, 101, 99, 45, 62, 99, 97, 112, 97, 99, 105, 116, 121, 32, 61, 32, 48, 59, 10, 125, 10, 10, 105, 110, 116, 32, 109, 97, 105, 110, 40, 118, 111, 105, 100, 41, 32, 123, 10, 32, 32, 32, 32, 73, 110, 116, 86, 101, 99, 116, 111, 114, 32, 118, 101, 99, 32, 61, 32, 123, 48, 125, 59, 10, 32, 32, 32, 32, 102, 111, 114, 32, 40, 105, 110, 116, 32, 105, 32, 61, 32, 48, 59, 32, 105, 32, 60, 32, 49, 48, 59, 32, 43, 43, 105, 41, 32, 123, 10, 32, 32, 32, 32, 32, 32, 32, 32, 105, 102, 32, 40, 118, 101, 99, 116, 111, 114, 95, 112, 117, 115, 104, 40, 38, 118, 101, 99, 44, 32, 105, 32, 42, 32, 105, 41, 32, 33, 61, 32, 48, 41, 32, 123, 10, 32, 32, 32, 32, 32, 32, 32, 32, 32, 32, 32, 32, 102, 112, 114, 105, 110, 116, 102, 40, 115, 116, 100, 101, 114, 114, 44, 32, 34, 65, 108, 108, 111, 99, 97, 116, 105, 111, 110, 32, 102, 97, 105, 108, 117, 114, 101, 92, 110, 34, 41, 59, 10, 32, 32, 32, 32, 32, 32, 32, 32, 32, 32, 32, 32, 118, 101, 99, 116, 111, 114, 95, 102, 114, 101, 101, 40, 38, 118, 101, 99, 41, 59, 10, 32, 32, 32, 32, 32, 32, 32, 32, 32, 32, 32, 32, 114, 101, 116, 117, 114, 110, 32, 49, 59, 10, 32, 32, 32, 32, 32, 32, 32, 32, 125, 10, 32, 32, 32, 32, 125, 10, 32, 32, 32, 32, 102, 111, 114, 32, 40, 115, 105, 122, 101, 95, 116, 32, 105, 32, 61, 32, 48, 59, 32, 105, 32, 60, 32, 118, 101, 99, 46, 108, 101, 110, 103, 116, 104, 59, 32, 43, 43, 105, 41, 32, 123, 10, 32, 32, 32, 32, 32, 32, 32, 32, 112, 114, 105, 110, 116, 102, 40, 34, 37, 100, 32, 34, 44, 32, 118, 101, 99, 46, 100, 97, 116, 97, 91, 105, 93, 41, 59, 10, 32, 32, 32, 32, 125, 10, 32, 32, 32, 32, 112, 117, 116, 115, 40, 34, 34, 41, 59, 10, 32, 32, 32, 32, 118, 101, 99, 116, 111, 114, 95, 102, 114, 101, 101, 40, 38, 118, 101, 99, 41, 59, 10, 32, 32, 32, 32, 114, 101, 116, 117, 114, 110, 32, 48, 59, 10, 125>> ]
          >> ],
        \* title: "8.2 Flexible Array Members"
        [ title |-> <<56, 46, 50, 32, 70, 108, 101, 120, 105, 98, 108, 101, 32, 65, 114, 114, 97, 121, 32, 77, 101, 109, 98, 101, 114, 115>>,
          \* summary: "A flexible array member is a struct's last element declared ...
          summary |-> <<65, 32, 102, 108, 101, 120, 105, 98, 108, 101, 32, 97, 114, 114, 97, 121, 32, 109, 101, 109, 98, 101, 114, 32, 105, 115, 32, 97, 32, 115, 116, 114, 117, 99, 116, 39, 115, 32, 108, 97, 115, 116, 32, 101, 108, 101, 109, 101, 110, 116, 32, 100, 101, 99, 108, 97, 114, 101, 100, 32, 119, 105, 116, 104, 32, 101, 109, 112, 116, 121, 32, 98, 114, 97, 99, 107, 101, 116, 115, 44, 32, 101, 110, 97, 98, 108, 105, 110, 103, 32, 118, 97, 114, 105, 97, 98, 108, 101, 45, 115, 105, 122, 101, 100, 32, 116, 114, 97, 105, 108, 105, 110, 103, 32, 115, 116, 111, 114, 97, 103, 101, 46>>,
          notes |-> <<
            \* note: "Allocate memory with ...
            <<65, 108, 108, 111, 99, 97, 116, 101, 32, 109, 101, 109, 111, 114, 121, 32, 119, 105, 116, 104, 32, 96, 115, 105, 122, 101, 111, 102, 40, 115, 116, 114, 117, 99, 116, 41, 32, 43, 32, 101, 108, 101, 109, 101, 110, 116, 95, 99, 111, 117, 110, 116, 32, 42, 32, 115, 105, 122, 101, 111, 102, 40, 116, 121, 112, 101, 41, 96, 46>>,
            \* note: "Commonly used for packet parsing or compound objects that co...
            <<67, 111, 109, 109, 111, 110, 108, 121, 32, 117, 115, 101, 100, 32, 102, 111, 114, 32, 112, 97, 99, 107, 101, 116, 32, 112, 97, 114, 115, 105, 110, 103, 32, 111, 114, 32, 99, 111, 109, 112, 111, 117, 110, 100, 32, 111, 98, 106, 101, 99, 116, 115, 32, 116, 104, 97, 116, 32, 99, 111, 109, 98, 105, 110, 101, 32, 109, 101, 116, 97, 100, 97, 116, 97, 32, 119, 105, 116, 104, 32, 100, 97, 116, 97, 32, 112, 97, 121, 108, 111, 97, 100, 115, 46>>
          >>,
          code |-> <<
            \* caption: "Flexible Array Member Pattern"
            [ caption |-> <<70, 108, 101, 120, 105, 98, 108, 101, 32, 65, 114, 114, 97, 121, 32, 77, 101, 109, 98, 101, 114, 32, 80, 97, 116, 116, 101, 114, 110>>,
              \* content: "#include <stdio.h>...
              content |-> <<35, 105, 110, 99, 108, 117, 100, 101, 32, 60, 115, 116, 100, 105, 111, 46, 104, 62, 10, 35, 105, 110, 99, 108, 117, 100, 101, 32, 60, 115, 116, 100, 108, 105, 98, 46, 104, 62, 10, 35, 105, 110, 99, 108, 117, 100, 101, 32, 60, 115, 116, 114, 105, 110, 103, 46, 104, 62, 10, 10, 116, 121, 112, 101, 100, 101, 102, 32, 115, 116, 114, 117, 99, 116, 32, 123, 10, 32, 32, 32, 32, 115, 105, 122, 101, 95, 116, 32, 108, 101, 110, 103, 116, 104, 59, 10, 32, 32, 32, 32, 99, 104, 97, 114, 32, 116, 101, 120, 116, 91, 93, 59, 10, 125, 32, 83, 116, 114, 105, 110, 103, 66, 108, 111, 98, 59, 10, 10, 83, 116, 114, 105, 110, 103, 66, 108, 111, 98, 32, 42, 115, 116, 114, 105, 110, 103, 98, 108, 111, 98, 95, 99, 114, 101, 97, 116, 101, 40, 99, 111, 110, 115, 116, 32, 99, 104, 97, 114, 32, 42, 115, 111, 117, 114, 99, 101, 41, 32, 123, 10, 32, 32, 32, 32, 115, 105, 122, 101, 95, 116, 32, 108, 101, 110, 32, 61, 32, 115, 116, 114, 108, 101, 110, 40, 115, 111, 117, 114, 99, 101, 41, 59, 10, 32, 32, 32, 32, 83, 116, 114, 105, 110, 103, 66, 108, 111, 98, 32, 42, 98, 108, 111, 98, 32, 61, 32, 109, 97, 108, 108, 111, 99, 40, 115, 105, 122, 101, 111, 102, 32, 42, 98, 108, 111, 98, 32, 43, 32, 40, 108, 101, 110, 32, 43, 32, 49, 41, 32, 42, 32, 115, 105, 122, 101, 111, 102, 40, 99, 104, 97, 114, 41, 41, 59, 10, 32, 32, 32, 32, 105, 102, 32, 40, 33, 98, 108, 111, 98, 41, 32, 123, 10, 32, 32, 32, 32, 32, 32, 32, 32, 114, 101, 116, 117, 114, 110, 32, 78, 85, 76, 76, 59, 10, 32, 32, 32, 32, 125, 10, 32, 32, 32, 32, 98, 108, 111, 98, 45, 62, 108, 101, 110, 103, 116, 104, 32, 61, 32, 108, 101, 110, 59, 10, 32, 32, 32, 32, 109, 101, 109, 99, 112, 121, 40, 98, 108, 111, 98, 45, 62, 116, 101, 120, 116, 44, 32, 115, 111, 117, 114, 99, 101, 44, 32, 108, 101, 110, 32, 43, 32, 49, 41, 59, 10, 32, 32, 32, 32, 114, 101, 116, 117, 114, 110, 32, 98, 108, 111, 98, 59, 10, 125, 10, 10, 105, 110, 116, 32, 109, 97, 105, 110, 40, 118, 111, 105, 100, 41, 32, 123, 10, 32, 32, 32, 32, 83, 116, 114, 105, 110, 103, 66, 108, 111, 98, 32, 42, 98, 108, 111, 98, 32, 61, 32, 115, 116, 114, 105, 110, 103, 98, 108, 111, 98, 95, 99, 114, 101, 97, 116, 101, 40, 34, 67, 111, 110, 116, 105, 103, 117, 111, 117, 115, 32, 97, 114, 114, 97, 121, 115, 32, 114, 111, 99, 107, 33, 34, 41, 59, 10, 32, 32, 32, 32, 105, 102, 32, 40, 33, 98, 108, 111, 98, 41, 32, 123, 10, 32, 32, 32, 32, 32, 32, 32, 32, 114, 101, 116, 117, 114, 110, 32, 49, 59, 10, 32, 32, 32, 32, 125, 10, 32, 32, 32, 32, 112, 114, 105, 110, 116, 102, 40, 34, 83, 116, 111, 114, 101, 100, 58, 32, 37, 115, 32, 40, 37, 122, 117, 32, 99, 104, 97, 114, 115, 41, 92, 110, 34, 44, 32, 98, 108, 111, 98, 45, 62, 116, 101, 120, 116, 44, 32, 98, 108, 111, 98, 45, 62, 108, 101, 110, 103, 116, 104, 41, 59, 10, 32, 32, 32, 32, 102, 114, 101, 101, 40, 98, 108, 111, 98, 41, 59, 10, 32, 32, 32, 32, 114, 101, 116, 117, 114, 110, 32, 48, 59, 10, 125>> ]
          >> ]
      >> ],
    \* title: "9. Arrays and Functions"
    [ title |-> <<57, 46, 32, 65, 114, 114, 97, 121, 115, 32, 97, 110, 100, 32, 70, 117, 110, 99, 116, 105, 111, 110, 115>>,
      \* summary: "Passing arrays to functions requires explicit size communica...
      summary |-> <<80, 97, 115, 115, 105, 110, 103, 32, 97, 114, 114, 97, 121, 115, 32, 116, 111, 32, 102, 117, 110, 99, 116, 105, 111, 110, 115, 32, 114, 101, 113, 117, 105, 114, 101, 115, 32, 101, 120, 112, 108, 105, 99, 105, 116, 32, 115, 105, 122, 101, 32, 99, 111, 109, 109, 117, 110, 105, 99, 97, 116, 105, 111, 110, 46, 32, 96, 99, 111, 110, 115, 116, 96, 32, 113, 117, 97, 108, 105, 102, 105, 101, 114, 115, 32, 100, 111, 99, 117, 109, 101, 110, 116, 32, 105, 110, 116, 101, 110, 116, 32, 97, 110, 100, 32, 101, 110, 97, 98, 108, 101, 32, 109, 111, 114, 101, 32, 111, 112, 116, 105, 109, 105, 122, 97, 116, 105, 111, 110, 115, 46>>,
      subtopics |-> <<
        \* title: "9.1 Function Parameters"
        [ title |-> <<57, 46, 49, 32, 70, 117, 110, 99, 116, 105, 111, 110, 32, 80, 97, 114, 97, 109, 101, 116, 101, 114, 115>>,
          \* summary: "Declaring parameters as ...
          summary |-> <<68, 101, 99, 108, 97, 114, 105, 110, 103, 32, 112, 97, 114, 97, 109, 101, 116, 101, 114, 115, 32, 97, 115, 32, 96, 105, 110, 116, 32, 97, 114, 114, 91, 93, 96, 44, 32, 96, 105, 110, 116, 32, 97, 114, 114, 91, 115, 116, 97, 116, 105, 99, 32, 78, 93, 96, 44, 32, 111, 114, 32, 96, 105, 110, 116, 32, 42, 97, 114, 114, 96, 32, 97, 114, 101, 32, 101, 113, 117, 105, 118, 97, 108, 101, 110, 116, 44, 32, 98, 117, 116, 32, 113, 117, 97, 108, 105, 102, 105, 101, 114, 115, 32, 108, 105, 107, 101, 32, 96, 115, 116, 97, 116, 105, 99, 96, 32, 99, 97, 110, 32, 105, 110, 115, 116, 114, 117, 99, 116, 32, 116, 104, 101, 32, 99, 111, 109, 112, 105, 108, 101, 114, 32, 97, 98, 111, 117, 116, 32, 109, 105, 110, 105, 109, 117, 109, 32, 115, 105, 122, 101, 46>>,
          notes |-> <<
            \* note: "...
            <<96, 115, 116, 97, 116, 105, 99, 96, 32, 105, 110, 32, 112, 97, 114, 97, 109, 101, 116, 101, 114, 32, 100, 101, 99, 108, 97, 114, 97, 116, 105, 111, 110, 115, 32, 105, 110, 100, 105, 99, 97, 116, 101, 115, 32, 116, 104, 97, 116, 32, 116, 104, 101, 32, 112, 111, 105, 110, 116, 101, 114, 32, 97, 114, 103, 117, 109, 101, 110, 116, 32, 109, 117, 115, 116, 32, 97, 100, 100, 114, 101, 115, 115, 32, 97, 116, 32, 108, 101, 97, 115, 116, 32, 116, 104, 101, 32, 115, 112, 101, 99, 105, 102, 105, 101, 100, 32, 110, 117, 109, 98, 101, 114, 32, 111, 102, 32, 101, 108, 101, 109, 101, 110, 116, 115, 46>>,
            \* note: "Use ...
            <<85, 115, 101, 32, 96, 114, 101, 115, 116, 114, 105, 99, 116, 96, 32, 105, 110, 32, 67, 57, 57, 43, 32, 119, 104, 101, 110, 32, 112, 111, 105, 110, 116, 101, 114, 115, 32, 114, 101, 102, 101, 114, 32, 116, 111, 32, 110, 111, 110, 45, 111, 118, 101, 114, 108, 97, 112, 112, 105, 110, 103, 32, 111, 98, 106, 101, 99, 116, 115, 32, 116, 111, 32, 104, 101, 108, 112, 32, 118, 101, 99, 116, 111, 114, 105, 122, 97, 116, 105, 111, 110, 46>>
          >>,
          code |-> <<
            \* caption: "Using static in Parameters"
            [ caption |-> <<85, 115, 105, 110, 103, 32, 115, 116, 97, 116, 105, 99, 32, 105, 110, 32, 80, 97, 114, 97, 109, 101, 116, 101, 114, 115>>,
              \* content: "#include <stddef.h>...
              content |-> <<35, 105, 110, 99, 108, 117, 100, 101, 32, 60, 115, 116, 100, 100, 101, 102, 46, 104, 62, 10, 35, 105, 110, 99, 108, 117, 100, 101, 32, 60, 115, 116, 100, 105, 111, 46, 104, 62, 10, 10, 118, 111, 105, 100, 32, 110, 111, 114, 109, 97, 108, 105, 122, 101, 40, 100, 111, 117, 98, 108, 101, 32, 118, 97, 108, 117, 101, 115, 91, 115, 116, 97, 116, 105, 99, 32, 52, 93, 44, 32, 115, 105, 122, 101, 95, 116, 32, 108, 101, 110, 103, 116, 104, 41, 32, 123, 10, 32, 32, 32, 32, 100, 111, 117, 98, 108, 101, 32, 109, 97, 120, 32, 61, 32, 48, 46, 48, 59, 10, 32, 32, 32, 32, 102, 111, 114, 32, 40, 115, 105, 122, 101, 95, 116, 32, 105, 32, 61, 32, 48, 59, 32, 105, 32, 60, 32, 108, 101, 110, 103, 116, 104, 59, 32, 43, 43, 105, 41, 32, 123, 10, 32, 32, 32, 32, 32, 32, 32, 32, 105, 102, 32, 40, 118, 97, 108, 117, 101, 115, 91, 105, 93, 32, 62, 32, 109, 97, 120, 41, 32, 123, 10, 32, 32, 32, 32, 32, 32, 32, 32, 32, 32, 32, 32, 109, 97, 120, 32, 61, 32, 118, 97, 108, 117, 101, 115, 91, 105, 93, 59, 10, 32, 32, 32, 32, 32, 32, 32, 32, 125, 10, 32, 32, 32, 32, 125, 10, 32, 32, 32, 32, 105, 102, 32, 40, 109, 97, 120, 32, 61, 61, 32, 48, 46, 48, 41, 32, 123, 10, 32, 32, 32, 32, 32, 32, 32, 32, 114, 101, 116, 117, 114, 110, 59, 10, 32, 32, 32, 32, 125, 10, 32, 32, 32, 32, 102, 111, 114, 32, 40, 115, 105, 122, 101, 95, 116, 32, 105, 32, 61, 32, 48, 59, 32, 105, 32, 60, 32, 108, 101, 110, 103, 116, 104, 59, 32, 43, 43, 105, 41, 32, 123, 10, 32, 32, 32, 32, 32, 32, 32, 32, 118, 97, 108, 117, 101, 115, 91, 105, 93, 32, 47, 61, 32, 109, 97, 120, 59, 10, 32, 32, 32, 32, 125, 10, 125, 10, 10, 105, 110, 116, 32, 109, 97, 105, 110, 40, 118, 111, 105, 100, 41, 32, 123, 10, 32, 32, 32, 32, 100, 111, 117, 98, 108, 101, 32, 109, 101, 116, 114, 105, 99, 115, 91, 93, 32, 61, 32, 123, 52, 46, 48, 44, 32, 56, 46, 48, 44, 32, 50, 46, 48, 44, 32, 54, 46, 48, 125, 59, 10, 32, 32, 32, 32, 110, 111, 114, 109, 97, 108, 105, 122, 101, 40, 109, 101, 116, 114, 105, 99, 115, 44, 32, 115, 105, 122, 101, 111, 102, 32, 109, 101, 116, 114, 105, 99, 115, 32, 47, 32, 115, 105, 122, 101, 111, 102, 32, 42, 109, 101, 116, 114, 105, 99, 115, 41, 59, 10, 32, 32, 32, 32, 102, 111, 114, 32, 40, 115, 105, 122, 101, 95, 116, 32, 105, 32, 61, 32, 48, 59, 32, 105, 32, 60, 32, 115, 105, 122, 101, 111, 102, 32, 109, 101, 116, 114, 105, 99, 115, 32, 47, 32, 115, 105, 122, 101, 111, 102, 32, 42, 109, 101, 116, 114, 105, 99, 115, 59, 32, 43, 43, 105, 41, 32, 123, 10, 32, 32, 32, 32, 32, 32, 32, 32, 112, 114, 105, 110, 116, 102, 40, 34, 37, 46, 50, 102, 32, 34, 44, 32, 109, 101, 116, 114, 105, 99, 115, 91, 105, 93, 41, 59, 10, 32, 32, 32, 32, 125, 10, 32, 32, 32, 32, 112, 117, 116, 115, 40, 34, 34, 41, 59, 10, 32, 32, 32, 32, 114, 101, 116, 117, 114, 110, 32, 48, 59, 10, 125>> ]
          >> ],
        \* title: "9.2 Returning Arrays"
        [ title |-> <<57, 46, 50, 32, 82, 101, 116, 117, 114, 110, 105, 110, 103, 32, 65, 114, 114, 97, 121, 115>>,
          \* summary: "Functions cannot return arrays directly, but you can return ...
          summary |-> <<70, 117, 110, 99, 116, 105, 111, 110, 115, 32, 99, 97, 110, 110, 111, 116, 32, 114, 101, 116, 117, 114, 110, 32, 97, 114, 114, 97, 121, 115, 32, 100, 105, 114, 101, 99, 116, 108, 121, 44, 32, 98, 117, 116, 32, 121, 111, 117, 32, 99, 97, 110, 32, 114, 101, 116, 117, 114, 110, 32, 112, 111, 105, 110, 116, 101, 114, 115, 32, 116, 111, 32, 115, 116, 97, 116, 105, 99, 32, 115, 116, 111, 114, 97, 103, 101, 44, 32, 100, 121, 110, 97, 109, 105, 99, 97, 108, 108, 121, 32, 97, 108, 108, 111, 99, 97, 116, 101, 100, 32, 109, 101, 109, 111, 114, 121, 44, 32, 111, 114, 32, 119, 114, 97, 112, 32, 97, 114, 114, 97, 121, 115, 32, 105, 110, 32, 115, 116, 114, 117, 99, 116, 115, 46>>,
          notes |-> <<
            \* note: "Returning pointers to local arrays is undefined because the ...
            <<82, 101, 116, 117, 114, 110, 105, 110, 103, 32, 112, 111, 105, 110, 116, 101, 114, 115, 32, 116, 111, 32, 108, 111, 99, 97, 108, 32, 97, 114, 114, 97, 121, 115, 32, 105, 115, 32, 117, 110, 100, 101, 102, 105, 110, 101, 100, 32, 98, 101, 99, 97, 117, 115, 101, 32, 116, 104, 101, 32, 115, 116, 111, 114, 97, 103, 101, 32, 99, 101, 97, 115, 101, 115, 32, 116, 111, 32, 101, 120, 105, 115, 116, 32, 97, 102, 116, 101, 114, 32, 116, 104, 101, 32, 102, 117, 110, 99, 116, 105, 111, 110, 32, 101, 120, 105, 116, 115, 46>>,
            \* note: "Struct wrappers provide value semantics and can be copied or...
            <<83, 116, 114, 117, 99, 116, 32, 119, 114, 97, 112, 112, 101, 114, 115, 32, 112, 114, 111, 118, 105, 100, 101, 32, 118, 97, 108, 117, 101, 32, 115, 101, 109, 97, 110, 116, 105, 99, 115, 32, 97, 110, 100, 32, 99, 97, 110, 32, 98, 101, 32, 99, 111, 112, 105, 101, 100, 32, 111, 114, 32, 114, 101, 116, 117, 114, 110, 101, 100, 32, 115, 97, 102, 101, 108, 121, 46>>
          >>,
          code |-> <<
            \* caption: "Struct Wrapper Return"
            [ caption |-> <<83, 116, 114, 117, 99, 116, 32, 87, 114, 97, 112, 112, 101, 114, 32, 82, 101, 116, 117, 114, 110>>,
              \* content: "#include <stdio.h>...
              content |-> <<35, 105, 110, 99, 108, 117, 100, 101, 32, 60, 115, 116, 100, 105, 111, 46, 104, 62, 10, 10, 116, 121, 112, 101, 100, 101, 102, 32, 115, 116, 114, 117, 99, 116, 32, 123, 10, 32, 32, 32, 32, 100, 111, 117, 98, 108, 101, 32, 118, 97, 108, 117, 101, 115, 91, 51, 93, 59, 10, 125, 32, 84, 114, 105, 112, 108, 101, 59, 10, 10, 84, 114, 105, 112, 108, 101, 32, 109, 97, 107, 101, 95, 117, 110, 105, 116, 95, 118, 101, 99, 116, 111, 114, 40, 118, 111, 105, 100, 41, 32, 123, 10, 32, 32, 32, 32, 84, 114, 105, 112, 108, 101, 32, 116, 32, 61, 32, 123, 123, 49, 46, 48, 44, 32, 48, 46, 48, 44, 32, 48, 46, 48, 125, 125, 59, 10, 32, 32, 32, 32, 114, 101, 116, 117, 114, 110, 32, 116, 59, 10, 125, 10, 10, 105, 110, 116, 32, 109, 97, 105, 110, 40, 118, 111, 105, 100, 41, 32, 123, 10, 32, 32, 32, 32, 84, 114, 105, 112, 108, 101, 32, 120, 32, 61, 32, 109, 97, 107, 101, 95, 117, 110, 105, 116, 95, 118, 101, 99, 116, 111, 114, 40, 41, 59, 10, 32, 32, 32, 32, 112, 114, 105, 110, 116, 102, 40, 34, 40, 37, 46, 49, 102, 44, 32, 37, 46, 49, 102, 44, 32, 37, 46, 49, 102, 41, 92, 110, 34, 44, 32, 120, 46, 118, 97, 108, 117, 101, 115, 91, 48, 93, 44, 32, 120, 46, 118, 97, 108, 117, 101, 115, 91, 49, 93, 44, 32, 120, 46, 118, 97, 108, 117, 101, 115, 91, 50, 93, 41, 59, 10, 32, 32, 32, 32, 114, 101, 116, 117, 114, 110, 32, 48, 59, 10, 125>> ]
          >> ]
      >> ],
    \* title: "10. Best Practices and Common Pitfalls"
    [ title |-> <<49, 48, 46, 32, 66, 101, 115, 116, 32, 80, 114, 97, 99, 116, 105, 99, 101, 115, 32, 97, 110, 100, 32, 67, 111, 109, 109, 111, 110, 32, 80, 105, 116, 102, 97, 108, 108, 115>>,
      \* summary: "Finish with patterns and guidelines to write safer, more mai...
      summary |-> <<70, 105, 110, 105, 115, 104, 32, 119, 105, 116, 104, 32, 112, 97, 116, 116, 101, 114, 110, 115, 32, 97, 110, 100, 32, 103, 117, 105, 100, 101, 108, 105, 110, 101, 115, 32, 116, 111, 32, 119, 114, 105, 116, 101, 32, 115, 97, 102, 101, 114, 44, 32, 109, 111, 114, 101, 32, 109, 97, 105, 110, 116, 97, 105, 110, 97, 98, 108, 101, 32, 99, 111, 100, 101, 32, 119, 104, 101, 110, 32, 119, 111, 114, 107, 105, 110, 103, 32, 119, 105, 116, 104, 32, 97, 114, 114, 97, 121, 115, 32, 105, 110, 32, 67, 46>>,
      subtopics |-> <<
        \* title: "10.1 Best Practices Checklist"
        [ title |-> <<49, 48, 46, 49, 32, 66, 101, 115, 116, 32, 80, 114, 97, 99, 116, 105, 99, 101, 115, 32, 67, 104, 101, 99, 107, 108, 105, 115, 116>>,
          \* summary: "Apply these heuristics to make array usage more robust, self...
          summary |-> <<65, 112, 112, 108, 121, 32, 116, 104, 101, 115, 101, 32, 104, 101, 117, 114, 105, 115, 116, 105, 99, 115, 32, 116, 111, 32, 109, 97, 107, 101, 32, 97, 114, 114, 97, 121, 32, 117, 115, 97, 103, 101, 32, 109, 111, 114, 101, 32, 114, 111, 98, 117, 115, 116, 44, 32, 115, 101, 108, 102, 45, 100, 111, 99, 117, 109, 101, 110, 116, 105, 110, 103, 44, 32, 97, 110, 100, 32, 101, 102, 102, 105, 99, 105, 101, 110, 116, 46>>,
          notes |-> <<
            \* note: "Encapsulate array logic in helper functions that take length...
            <<69, 110, 99, 97, 112, 115, 117, 108, 97, 116, 101, 32, 97, 114, 114, 97, 121, 32, 108, 111, 103, 105, 99, 32, 105, 110, 32, 104, 101, 108, 112, 101, 114, 32, 102, 117, 110, 99, 116, 105, 111, 110, 115, 32, 116, 104, 97, 116, 32, 116, 97, 107, 101, 32, 108, 101, 110, 103, 116, 104, 115, 32, 101, 120, 112, 108, 105, 99, 105, 116, 108, 121, 46>>,
            \* note: "Favor ...
            <<70, 97, 118, 111, 114, 32, 96, 99, 111, 110, 115, 116, 96, 32, 119, 104, 101, 114, 101, 32, 112, 111, 115, 115, 105, 98, 108, 101, 32, 116, 111, 32, 115, 105, 103, 110, 97, 108, 32, 114, 101, 97, 100, 45, 111, 110, 108, 121, 32, 105, 110, 116, 101, 110, 116, 46>>,
            \* note: "Use enums or macros to centralize array sizes and prevent mi...
            <<85, 115, 101, 32, 101, 110, 117, 109, 115, 32, 111, 114, 32, 109, 97, 99, 114, 111, 115, 32, 116, 111, 32, 99, 101, 110, 116, 114, 97, 108, 105, 122, 101, 32, 97, 114, 114, 97, 121, 32, 115, 105, 122, 101, 115, 32, 97, 110, 100, 32, 112, 114, 101, 118, 101, 110, 116, 32, 109, 105, 115, 109, 97, 116, 99, 104, 101, 115, 46>>,
            \* note: "Prefer standard library algorithms ...
            <<80, 114, 101, 102, 101, 114, 32, 115, 116, 97, 110, 100, 97, 114, 100, 32, 108, 105, 98, 114, 97, 114, 121, 32, 97, 108, 103, 111, 114, 105, 116, 104, 109, 115, 32, 40, 96, 113, 115, 111, 114, 116, 96, 44, 32, 96, 98, 115, 101, 97, 114, 99, 104, 96, 41, 32, 119, 104, 101, 110, 32, 116, 104, 101, 121, 32, 102, 105, 116, 32, 116, 104, 101, 32, 116, 97, 115, 107, 46>>
          >> ],
        \* title: "10.2 Common Mistakes to Avoid"
        [ title |-> <<49, 48, 46, 50, 32, 67, 111, 109, 109, 111, 110, 32, 77, 105, 115, 116, 97, 107, 101, 115, 32, 116, 111, 32, 65, 118, 111, 105, 100>>,
          \* summary: "Recognize recurring pitfalls and undefined behaviors associa...
          summary |-> <<82, 101, 99, 111, 103, 110, 105, 122, 101, 32, 114, 101, 99, 117, 114, 114, 105, 110, 103, 32, 112, 105, 116, 102, 97, 108, 108, 115, 32, 97, 110, 100, 32, 117, 110, 100, 101, 102, 105, 110, 101, 100, 32, 98, 101, 104, 97, 118, 105, 111, 114, 115, 32, 97, 115, 115, 111, 99, 105, 97, 116, 101, 100, 32, 119, 105, 116, 104, 32, 97, 114, 114, 97, 121, 32, 109, 105, 115, 117, 115, 101, 46>>,
          notes |-> <<
            \* note: "Do not return pointers to stack-allocated arrays."
            <<68, 111, 32, 110, 111, 116, 32, 114, 101, 116, 117, 114, 110, 32, 112, 111, 105, 110, 116, 101, 114, 115, 32, 116, 111, 32, 115, 116, 97, 99, 107, 45, 97, 108, 108, 111, 99, 97, 116, 101, 100, 32, 97, 114, 114, 97, 121, 115, 46>>,
            \* note: "Avoid mixing pointer arithmetic with incorrect units ...
            <<65, 118, 111, 105, 100, 32, 109, 105, 120, 105, 110, 103, 32, 112, 111, 105, 110, 116, 101, 114, 32, 97, 114, 105, 116, 104, 109, 101, 116, 105, 99, 32, 119, 105, 116, 104, 32, 105, 110, 99, 111, 114, 114, 101, 99, 116, 32, 117, 110, 105, 116, 115, 32, 40, 101, 46, 103, 46, 44, 32, 97, 100, 100, 105, 110, 103, 32, 98, 121, 116, 101, 115, 32, 105, 110, 115, 116, 101, 97, 100, 32, 111, 102, 32, 101, 108, 101, 109, 101, 110, 116, 115, 41, 46>>,
            \* note: "Beware of off-by-one errors when iterating over indices; alw...
            <<66, 101, 119, 97, 114, 101, 32, 111, 102, 32, 111, 102, 102, 45, 98, 121, 45, 111, 110, 101, 32, 101, 114, 114, 111, 114, 115, 32, 119, 104, 101, 110, 32, 105, 116, 101, 114, 97, 116, 105, 110, 103, 32, 111, 118, 101, 114, 32, 105, 110, 100, 105, 99, 101, 115, 59, 32, 97, 108, 119, 97, 121, 115, 32, 100, 111, 117, 98, 108, 101, 45, 99, 104, 101, 99, 107, 32, 108, 111, 111, 112, 32, 98, 111, 117, 110, 100, 115, 46>>,
            \* note: "Remember to allocate space for the null terminator when work...
            <<82, 101, 109, 101, 109, 98, 101, 114, 32, 116, 111, 32, 97, 108, 108, 111, 99, 97, 116, 101, 32, 115, 112, 97, 99, 101, 32, 102, 111, 114, 32, 116, 104, 101, 32, 110, 117, 108, 108, 32, 116, 101, 114, 109, 105, 110, 97, 116, 111, 114, 32, 119, 104, 101, 110, 32, 119, 111, 114, 107, 105, 110, 103, 32, 119, 105, 116, 104, 32, 115, 116, 114, 105, 110, 103, 115, 46>>
          >>,
          code |-> <<
            \* caption: "Off-by-One Bug and Fix"
            [ caption |-> <<79, 102, 102, 45, 98, 121, 45, 79, 110, 101, 32, 66, 117, 103, 32, 97, 110, 100, 32, 70, 105, 120>>,
              \* content: "#include <stdio.h>...
              content |-> <<35, 105, 110, 99, 108, 117, 100, 101, 32, 60, 115, 116, 100, 105, 111, 46, 104, 62, 10, 10, 105, 110, 116, 32, 109, 97, 105, 110, 40, 118, 111, 105, 100, 41, 32, 123, 10, 32, 32, 32, 32, 105, 110, 116, 32, 100, 97, 116, 97, 91, 53, 93, 32, 61, 32, 123, 49, 44, 32, 50, 44, 32, 51, 44, 32, 52, 44, 32, 53, 125, 59, 10, 10, 32, 32, 32, 32, 47, 47, 32, 66, 117, 103, 103, 121, 58, 32, 119, 114, 105, 116, 101, 115, 32, 112, 97, 115, 116, 32, 116, 104, 101, 32, 101, 110, 100, 32, 119, 104, 101, 110, 32, 105, 32, 61, 61, 32, 53, 10, 32, 32, 32, 32, 102, 111, 114, 32, 40, 115, 105, 122, 101, 95, 116, 32, 105, 32, 61, 32, 48, 59, 32, 105, 32, 60, 61, 32, 53, 59, 32, 43, 43, 105, 41, 32, 123, 10, 32, 32, 32, 32, 32, 32, 32, 32, 100, 97, 116, 97, 91, 105, 93, 32, 61, 32, 48, 59, 32, 47, 47, 32, 85, 110, 100, 101, 102, 105, 110, 101, 100, 32, 98, 101, 104, 97, 118, 105, 111, 114, 32, 119, 104, 101, 110, 32, 105, 32, 61, 61, 32, 53, 10, 32, 32, 32, 32, 125, 10, 10, 32, 32, 32, 32, 47, 47, 32, 70, 105, 120, 101, 100, 32, 108, 111, 111, 112, 10, 32, 32, 32, 32, 102, 111, 114, 32, 40, 115, 105, 122, 101, 95, 116, 32, 105, 32, 61, 32, 48, 59, 32, 105, 32, 60, 32, 53, 59, 32, 43, 43, 105, 41, 32, 123, 10, 32, 32, 32, 32, 32, 32, 32, 32, 100, 97, 116, 97, 91, 105, 93, 32, 61, 32, 48, 59, 10, 32, 32, 32, 32, 125, 10, 10, 32, 32, 32, 32, 102, 111, 114, 32, 40, 115, 105, 122, 101, 95, 116, 32, 105, 32, 61, 32, 48, 59, 32, 105, 32, 60, 32, 53, 59, 32, 43, 43, 105, 41, 32, 123, 10, 32, 32, 32, 32, 32, 32, 32, 32, 112, 114, 105, 110, 116, 102, 40, 34, 37, 100, 32, 34, 44, 32, 100, 97, 116, 97, 91, 105, 93, 41, 59, 10, 32, 32, 32, 32, 125, 10, 32, 32, 32, 32, 112, 117, 116, 115, 40, 34, 34, 41, 59, 10, 32, 32, 32, 32, 114, 101, 116, 117, 114, 110, 32, 48, 59, 10, 125>> ]
          >> ]
      >> ]
  >>

(***************************************************************************)
(* The renderer Home (page.tsx lines 760-843).  The markup is a tree: an   *)
(* element is [tag, props, children], a text node is [text].  React keys   *)
(* are not part of the markup and are left out.  Text is a tuple of code   *)
(* units, the fixed copy of the hero header and of the footer included.    *)
(***************************************************************************)
Element(tag, props, children) ==
  [tag |-> tag, props |-> props, children |-> children]

Text(s) == [text |-> s]

NoProps == [p \in {} |-> 0]

\* obj.field of an optional field: present, or undefined.
HasField(obj, f) == f \in DOMAIN obj

\* {subtopic.notes && (...)}: undefined is falsy and renders nothing; an
\* array, empty or not, is truthy.
Truthy(obj, f) == HasField(obj, f)

\* A plausible slip: the href built from the title itself.
NavEntryRawTitle(topic) ==
  Element("li", NoProps,
    << Element("a", [href |-> <<35>> \o topic.title],
         << Text(topic.title) >>) >>)

\* Lines 777-779: one <li><a href="#slug">title</a></li> for a topic.
NavEntry(topic) ==
  Element("li", NoProps,
    << Element("a", [href |-> <<35>> \o slugify(topic.title)],
         << Text(topic.title) >>) >>)

\* Line 808: one <li>note</li>.
NoteItem(note) == Element("li", NoProps, << Text(note) >>)

\* A plausible slip: the list always rendered, with one placeholder item
\* when the subtopic has no notes field.
NotesListWithPlaceholder(subtopic) ==
  << Element("ul", [className |-> "notes"],
       IF HasField(subtopic, "notes")
       THEN [i \in 1..Len(subtopic.notes) |-> NoteItem(subtopic.notes[i])]
       ELSE << NoteItem(<<>>) >>) >>

\* Lines 805-811: the notes list, when subtopic.notes is truthy.
NotesList(subtopic) ==
  IF Truthy(subtopic, "notes")
  THEN << Element("ul", [className |-> "notes"],
            [i \in 1..Len(subtopic.notes) |-> NoteItem(subtopic.notes[i])]) >>
  ELSE << >>

\* s without its leading and trailing white space (String.prototype.trim,
\* for the white space of the modelled text: space, tab, line feed, CR).
IsBlank(c) == c \in {32, 9, 10, 13}

RECURSIVE TrimStart(_)
TrimStart(s) ==
  IF s # <<>> /\ IsBlank(Head(s)) THEN TrimStart(Tail(s)) ELSE s

RECURSIVE TrimEnd(_)
TrimEnd(s) ==
  IF s # <<>> /\ IsBlank(s[Len(s)])
  THEN TrimEnd(SubSeq(s, 1, Len(s) - 1))
  ELSE s

\* A plausible slip: the content trimmed before it is rendered.
CodeFigureTrimmed(sample) ==
  Element("figure", [className |-> "codeSample"],
    << Element("figcaption", NoProps, << Text(sample.caption) >>),
       Element("pre", NoProps,
         << Element("code", NoProps,
              << Text(TrimEnd(TrimStart(sample.content))) >>) >>) >>)

\* Lines 816-824: one <figure> with the caption and <pre><code>content.
CodeFigure(sample) ==
  Element("figure", [className |-> "codeSample"],
    << Element("figcaption", NoProps, << Text(sample.caption) >>),
       Element("pre", NoProps,
         << Element("code", NoProps, << Text(sample.content) >>) >>) >>)

\* Lines 813-827: the code group, when subtopic.code is truthy.
CodeGroup(subtopic) ==
  IF Truthy(subtopic, "code")
  THEN << Element("div", [className |-> "codeGroup"],
            [i \in 1..Len(subtopic.code) |-> CodeFigure(subtopic.code[i])]) >>
  ELSE << >>

\* A plausible slip: the id given as the title itself, not its slug.
SubtopicSectionRawId(subtopic) ==
  Element("section",
    [id |-> subtopic.title, className |-> "subtopic"],
    << Element("h3", NoProps, << Text(subtopic.title) >>),
       Element("p", NoProps, << Text(subtopic.summary) >>) >>
    \o NotesList(subtopic) \o CodeGroup(subtopic))

\* A plausible slip: the two optional blocks written in the other order,
\* the code group before the notes list.
SubtopicSectionCodeFirst(subtopic) ==
  Element("section",
    [id |-> slugify(subtopic.title), className |-> "subtopic"],
    << Element("h3", NoProps, << Text(subtopic.title) >>),
       Element("p", NoProps, << Text(subtopic.summary) >>) >>
    \o CodeGroup(subtopic) \o NotesList(subtopic))

\* Lines 797-828: the <section> of one subtopic.
SubtopicSection(subtopic) ==
  Element("section",
    [id |-> slugify(subtopic.title), className |-> "subtopic"],
    << Element("h3", NoProps, << Text(subtopic.title) >>),
       Element("p", NoProps, << Text(subtopic.summary) >>) >>
    \o NotesList(subtopic) \o CodeGroup(subtopic))

\* A plausible slip: the id given as the title itself, while the
\* navigation links to the slug.
TopicArticleRawId(topic) ==
  Element("article", [id |-> topic.title, className |-> "topic"],
    << Element("h2", NoProps, << Text(topic.title) >>),
       Element("p", [className |-> "topicSummary"], << Text(topic.summary) >>),
       Element("div", [className |-> "subtopics"],
         [j \in 1..Len(topic.subtopics) |->
            SubtopicSection(topic.subtopics[j])]) >>)

\* Lines 787-831: the <article> of one topic.
TopicArticle(topic) ==
  Element("article", [id |-> slugify(topic.title), className |-> "topic"],
    << Element("h2", NoProps, << Text(topic.title) >>),
       Element("p", [className |-> "topicSummary"], << Text(topic.summary) >>),
       Element("div", [className |-> "subtopics"],
         [j \in 1..Len(topic.subtopics) |->
            SubtopicSection(topic.subtopics[j])]) >>)

\* Line 765, the text of p.kicker: "Mastering Core C Constructs".
kickerCopy ==
  <<77, 97, 115, 116, 101, 114, 105, 110, 103, 32, 67, 111, 114, 101, 32,
     67, 32, 67, 111, 110, 115, 116, 114, 117, 99, 116, 115>>

\* Line 766, the text of h1 (U+2014 between "C" and "Comprehensive"):
\* "Arrays in C . Comprehensive Notes & Examples".
headingCopy ==
  <<65, 114, 114, 97, 121, 115, 32, 105, 110, 32, 67, 32, 8212, 32, 67, 111,
     109, 112, 114, 101, 104, 101, 110, 115, 105, 118, 101, 32, 78, 111,
     116, 101, 115, 32, 38, 32, 69, 120, 97, 109, 112, 108, 101, 115>>

\* Lines 768-771, the text of p.lede; JSX trims each line and joins the
\* lines with one space: "A structured reference ... sample programs."
ledeCopy ==
  <<65, 32, 115, 116, 114, 117, 99, 116, 117, 114, 101, 100, 32, 114, 101,
     102, 101, 114, 101, 110, 99, 101, 32, 99, 111, 118, 101, 114, 105, 110,
     103, 32, 102, 117, 110, 100, 97, 109, 101, 110, 116, 97, 108, 115, 44,
     32, 109, 101, 109, 111, 114, 121, 32, 98, 101, 104, 97, 118, 105, 111,
     114, 44, 32, 109, 117, 108, 116, 105, 45, 100, 105, 109, 101, 110, 115,
     105, 111, 110, 97, 108, 32, 97, 114, 114, 97, 121, 115, 44, 32, 112,
     111, 105, 110, 116, 101, 114, 32, 105, 110, 116, 101, 114, 112, 108,
     97, 121, 44, 32, 100, 121, 110, 97, 109, 105, 99, 32, 97, 108, 108,
     111, 99, 97, 116, 105, 111, 110, 44, 32, 97, 110, 100, 32, 98, 101,
     115, 116, 32, 112, 114, 97, 99, 116, 105, 99, 101, 115, 46, 32, 69, 97,
     99, 104, 32, 116, 111, 112, 105, 99, 32, 105, 110, 99, 108, 117, 100,
     101, 115, 32, 99, 111, 110, 99, 105, 115, 101, 32, 101, 120, 112, 108,
     97, 110, 97, 116, 105, 111, 110, 115, 32, 97, 110, 100, 32, 114, 117,
     110, 110, 97, 98, 108, 101, 32, 115, 97, 109, 112, 108, 101, 32, 112,
     114, 111, 103, 114, 97, 109, 115, 46>>

\* Line 774, the text of p.tocHeading: "Quick Navigation".
tocHeadingCopy ==
  <<81, 117, 105, 99, 107, 32, 78, 97, 118, 105, 103, 97, 116, 105, 111, 110>>

\* Lines 837-838, the text of the footer paragraph, joined as JSX joins it:
\* "Need a printable copy? ... compile and experiment."
footerCopy ==
  <<78, 101, 101, 100, 32, 97, 32, 112, 114, 105, 110, 116, 97, 98, 108,
     101, 32, 99, 111, 112, 121, 63, 32, 69, 120, 112, 111, 114, 116, 32,
     116, 104, 105, 115, 32, 112, 97, 103, 101, 32, 116, 111, 32, 80, 68,
     70, 32, 111, 114, 32, 105, 110, 116, 101, 103, 114, 97, 116, 101, 32,
     116, 104, 101, 32, 99, 111, 100, 101, 32, 115, 110, 105, 112, 112, 101,
     116, 115, 32, 105, 110, 116, 111, 32, 121, 111, 117, 114, 32, 102, 97,
     118, 111, 114, 105, 116, 101, 32, 101, 100, 105, 116, 111, 114, 32,
     116, 111, 32, 99, 111, 109, 112, 105, 108, 101, 32, 97, 110, 100, 32,
     101, 120, 112, 101, 114, 105, 109, 101, 110, 116, 46>>

\* Lines 773-782: the navigation, its heading and one entry per topic.
Toc(ts) ==
  Element("nav", [className |-> "toc"],
    << Element("p", [className |-> "tocHeading"], << Text(tocHeadingCopy) >>),
       Element("ul", NoProps, [i \in 1..Len(ts) |-> NavEntry(ts[i])]) >>)

\* Lines 760-843: what Home returns for the Content Model ts.
Home(ts) ==
  Element("div", [className |-> "page"],
    << Element("main", [className |-> "main"],
         << Element("header", [className |-> "hero"],
              << Element("p", [className |-> "kicker"], << Text(kickerCopy) >>),
                 Element("h1", NoProps, << Text(headingCopy) >>),
                 Element("p", [className |-> "lede"], << Text(ledeCopy) >>),
                 Toc(ts) >>),
            Element("section", [className |-> "topics"],
              [i \in 1..Len(ts) |-> TopicArticle(ts[i])]),
            Element("footer", [className |-> "footer"],
              << Element("p", NoProps, << Text(footerCopy) >>) >>) >>) >>)

(***************************************************************************)
(* The inputs.                                                             *)
(***************************************************************************)
\* "2.2 Initializer Lists", "Arrays and Pointers", "  Leading/Trailing!!"
ExInitializerLists ==
  <<50, 46, 50, 32, 73, 110, 105, 116, 105, 97, 108, 105, 122, 101, 114, 32,
    76, 105, 115, 116, 115>>

ExArraysAndPointers ==
  <<65, 114, 114, 97, 121, 115, 32, 97, 110, 100, 32, 80, 111, 105, 110, 116,
    101, 114, 115>>

ExLeadingTrailing ==
  <<32, 32, 76, 101, 97, 100, 105, 110, 103, 47, 84, 114, 97, 105, 108, 105,
    110, 103, 33, 33>>

\* Every title of the Content Model ts, topics' and subtopics'.
TitlesOf(ts) ==
  {ts[i].title : i \in 1..Len(ts)}
  \cup UNION {{ts[i].subtopics[j].title : j \in 1..Len(ts[i].subtopics)} :
              i \in 1..Len(ts)}

\* Capital letters beyond Latin-1: "\u0100", "\u0391", "\u0410",
\* "\u0391\u03a3" and "\u0391\u03a3 a"; and a capital sigma next to
\* U+0295 (a letter without case), U+0897 and U+1E030 (case-ignorable),
\* U+1171E (a spacing mark) and U+1DF25 (a small letter).
ExCapitals ==
  {<<256>>, <<913>>, <<1040>>, <<913, 931>>, <<913, 931, 32, 97>>,
   <<65, 931, 661>>, <<49, 661, 931>>, <<65, 2199, 931>>,
   <<65, 55352, 56368, 931>>, <<65, 931, 55301, 57118, 65>>,
   <<49, 55351, 57125, 931>>}

\* What slugify is applied to: every string over Alphabet and every string
\* over CaseAlphabet up to MaxLen, the three worked examples, the capitals
\* beyond Latin-1, and the authored titles.
Inputs ==
  BoundedSeq(Alphabet, MaxLen)
  \cup BoundedSeq(CaseAlphabet, MaxLen)
  \cup {ExInitializerLists, ExArraysAndPointers, ExLeadingTrailing}
  \cup ExCapitals
  \cup TitlesOf(topics)

\* Titles of the enumerated topics: "A b" and "a-b" share the slug "a-b",
\* "!" has the empty slug.
TopicTitles == {<<65, 32, 98>>, <<97, 45, 98>>, <<33>>}

\* Notes and code samples of the enumerated subtopics; their text carries
\* leading and trailing blanks, a tab and newlines.
NoteOne == <<32, 120, 10>>
NoteTwo == <<121, 32, 32, 122>>
SampleOne ==
  [caption |-> <<67, 49>>, content |-> <<32, 32, 105, 59, 10, 9, 125, 10>>]
SampleTwo == [caption |-> <<99>>, content |-> <<47, 47, 32>>]

\* The kinds of enumerated subtopic: one with neither optional field
\* ("1.1 X"), one with both as empty lists ("A  B", whose slug "a-b" is that
\* of two topic titles), one with two notes and two code samples ("2.2 Y!").
SubtopicKinds ==
  << [title |-> <<49, 46, 49, 32, 88>>, summary |-> <<115>>],
     [title |-> <<65, 32, 32, 66>>, summary |-> <<>>,
      notes |-> <<>>, code |-> <<>>],
     [title |-> <<50, 46, 50, 32, 89, 33>>, summary |-> <<115, 32>>,
      notes |-> <<NoteOne, NoteTwo>>, code |-> <<SampleOne, SampleTwo>>] >>

\* The subtopic lists of the enumerated topics: every run of up to
\* MaxSubtopics consecutive kinds, taken cyclically from any start.
SubtopicLists ==
  {[j \in 1..n |-> SubtopicKinds[((k + j - 2) % Len(SubtopicKinds)) + 1]] :
     k \in 1..Len(SubtopicKinds), n \in 0..MaxSubtopics}

TopicPool ==
  {[title |-> t, summary |-> <<84>>, subtopics |-> ss] :
     t \in TopicTitles, ss \in SubtopicLists}

\* The Content Models rendered: the enumerated ones and the authored one.
ContentModels == BoundedSeq(TopicPool, MaxTopics) \cup {topics}

(***************************************************************************)
(* Spec: slugify applied to an input, then to its own output.              *)
(***************************************************************************)
Init ==
  /\ value \in Inputs
  /\ slug = <<>>
  /\ again = <<>>
  /\ pc = "ready"
  /\ model = <<>>
  /\ page = <<>>

\* slug = slugify(value)
Slugify ==
  /\ pc = "ready"
  /\ slug' = slugify(value)
  /\ pc' = "done"
  /\ UNCHANGED <<value, again, model, page>>

\* again = slugify(slug)
Reslugify ==
  /\ pc = "done"
  /\ again' = slugify(slug)
  /\ pc' = "redone"
  /\ UNCHANGED <<value, slug, model, page>>

Next == Slugify \/ Reslugify

Spec == Init /\ [][Next]_vars

(***************************************************************************)
(* RenderSpec: Home renders a Content Model.                               *)
(***************************************************************************)
RenderInit ==
  /\ model \in ContentModels
  /\ page = <<>>
  /\ pc = "ready"
  /\ value = <<>>
  /\ slug = <<>>
  /\ again = <<>>

\* page = <Home />
RenderHome ==
  /\ pc = "ready"
  /\ page' = <<Home(model)>>
  /\ pc' = "rendered"
  /\ UNCHANGED <<value, slug, again, model>>

RenderNext == RenderHome

RenderSpec == RenderInit /\ [][RenderNext]_vars

(***************************************************************************)
(* Properties of slugify, checked under Spec.                              *)
(***************************************************************************)
HasAsciiAlnum(s) == \E i \in 1..Len(s) : IsAsciiAlnum(s[i])

HasSlugChar(s) == \E i \in 1..Len(s) : IsSlugChar(s[i])

\* s matches ^[a-z0-9]+(-[a-z0-9]+)*$ : non-empty, only [a-z0-9] and
\* hyphens, no hyphen first or last, no two hyphens side by side.
MatchesSlugPattern(s) ==
  /\ Len(s) > 0
  /\ \A i \in 1..Len(s) : IsSlugChar(s[i]) \/ s[i] = 45
  /\ s[1] # 45
  /\ s[Len(s)] # 45
  /\ \A i \in 1..(Len(s) - 1) : ~(s[i] = 45 /\ s[i + 1] = 45)

\* C1: for every non-empty input with at least one ASCII letter or digit,
\* slugify returns a string matching ^[a-z0-9]+(-[a-z0-9]+)*$.
C1_SlugMatchesPattern ==
  (pc # "ready" /\ Len(value) > 0 /\ HasAsciiAlnum(value))
    => MatchesSlugPattern(slug)

\* An input that starts and ends outside [A-Za-z0-9] and holds two such
\* code units side by side has been slugified to a matching slug.
C1_Witness ==
  /\ pc = "done"
  /\ HasAsciiAlnum(value)
  /\ ~IsAsciiAlnum(value[1])
  /\ ~IsAsciiAlnum(value[Len(value)])
  /\ \E i \in 1..(Len(value) - 1) :
       ~IsAsciiAlnum(value[i]) /\ ~IsAsciiAlnum(value[i + 1])
  /\ MatchesSlugPattern(slug)

\* C2: slugify is idempotent: slugify(slugify(s)) = slugify(s) for every s,
\* the empty string and strings without letters or digits included.
C2_Idempotent == pc = "redone" => again = slug

\* slugify changed its input to a non-empty slug, and a second application
\* left that slug as it was.
C2_Witness ==
  /\ pc = "redone"
  /\ slug # value
  /\ Len(slug) > 1
  /\ again = slug

\* The reference algorithm of the specification, step (b): every maximal
\* run of code units outside [a-z0-9] becomes one hyphen.  A code unit is
\* kept when it is in [a-z0-9] or is the first of its run.
RefCollapseRuns(s) ==
  LET kept == SelectSeq([i \in 1..Len(s) |-> i],
                 LAMBDA i : IsSlugChar(s[i]) \/ i = 1 \/ IsSlugChar(s[i - 1]))
  IN [k \in 1..Len(kept) |->
        IF IsSlugChar(s[kept[k]]) THEN s[kept[k]] ELSE 45]

\* Step (c): remove one leading hyphen if present.
RefStripLeading(s) == IF Len(s) > 0 /\ s[1] = 45 THEN Tail(s) ELSE s

\* Step (d): remove one trailing hyphen if present.
RefStripTrailing(s) ==
  IF Len(s) > 0 /\ s[Len(s)] = 45 THEN SubSeq(s, 1, Len(s) - 1) ELSE s

\* Steps (a) to (d).
RefSlugify(s) ==
  RefStripTrailing(RefStripLeading(RefCollapseRuns(toLowerCase(s))))

\* "2-2-initializer-lists", "arrays-and-pointers", "leading-trailing"
SlugInitializerLists ==
  <<50, 45, 50, 45, 105, 110, 105, 116, 105, 97, 108, 105, 122, 101, 114, 45,
    108, 105, 115, 116, 115>>

SlugArraysAndPointers ==
  <<97, 114, 114, 97, 121, 115, 45, 97, 110, 100, 45, 112, 111, 105, 110, 116,
    101, 114, 115>>

SlugLeadingTrailing ==
  <<108, 101, 97, 100, 105, 110, 103, 45, 116, 114, 97, 105, 108, 105, 110,
    103>>

\* C3: for every input slugify returns the result of the four-step
\* reference algorithm, and the three worked examples give the slugs the
\* specification states.
C3_EqualsReferenceAlgorithm ==
  pc # "ready" =>
    /\ slug = RefSlugify(value)
    /\ value = ExInitializerLists => slug = SlugInitializerLists
    /\ value = ExArraysAndPointers => slug = SlugArraysAndPointers
    /\ value = ExLeadingTrailing => slug = SlugLeadingTrailing

\* "  Leading/Trailing!!" has been slugified: every step of the algorithm
\* had something to do.
C3_Witness ==
  /\ pc = "done"
  /\ value = ExLeadingTrailing
  /\ slug = SlugLeadingTrailing

\* C4 as stated: the result is empty exactly when the input has no ASCII
\* letter or digit.
C4_EmptyIffNoAsciiAlnum ==
  pc # "ready" => ((slug = <<>>) <=> ~HasAsciiAlnum(value))

\* C4, amended: the result is empty exactly when the lowercased input has
\* no code unit in [a-z0-9]; so an input with an ASCII letter or digit gives
\* a non-empty result, and an input whose lowercase has none gives the empty
\* string, never a lone hyphen.
C4_EmptyIffNoSlugCharAfterLowercase ==
  pc # "ready" =>
    /\ (slug = <<>>) <=> ~HasSlugChar(toLowerCase(value))
    /\ HasAsciiAlnum(value) => slug # <<>>

\* An input of several code units, none of which lowercases into [a-z0-9],
\* has been slugified to the empty string.
C4_Witness ==
  /\ pc = "done"
  /\ Len(value) > 1
  /\ ~HasSlugChar(toLowerCase(value))
  /\ slug = <<>>

(***************************************************************************)
(* Reading the rendered markup.                                            *)
(***************************************************************************)
IsElement(n) == "tag" \in DOMAIN n

\* The elements of a list of nodes and of all below them, in document order.
RECURSIVE Elements(_)
Elements(nodes) ==
  IF Len(nodes) = 0 THEN <<>>
  ELSE IF IsElement(Head(nodes))
       THEN <<Head(nodes)>> \o Elements(Head(nodes).children)
              \o Elements(Tail(nodes))
       ELSE Elements(Tail(nodes))

HasClass(e, c) == HasField(e.props, "className") /\ e.props.className = c

WithTag(es, tag) == SelectSeq(es, LAMBDA e : e.tag = tag)

WithClass(es, c) == SelectSeq(es, LAMBDA e : HasClass(e, c))

\* The elements below element e with the given tag.
Below(e, tag) == WithTag(Elements(e.children), tag)

\* The text of an element whose only child is a text node.
TextOf(e) == e.children[1].text

\* The entries of the navigation list: the <li> below <nav>.
NavEntries == Below(WithTag(Elements(page), "nav")[1], "li")

\* The topic sections and the subtopic sections of the page, in document
\* order.
TopicSections == WithTag(Elements(page), "article")

SubtopicSections ==
  WithClass(WithTag(Elements(page), "section"), "subtopic")

\* The subtopics of a Content Model, topic after topic.
RECURSIVE AllSubtopics(_)
AllSubtopics(ts) ==
  IF Len(ts) = 0 THEN <<>>
  ELSE Head(ts).subtopics \o AllSubtopics(Tail(ts))

\* sum(M_i): the number of subtopics over all topics.
RECURSIVE SumSubtopics(_)
SumSubtopics(ts) ==
  IF Len(ts) = 0 THEN 0
  ELSE Len(Head(ts).subtopics) + SumSubtopics(Tail(ts))

\* The note items and the code figures inside a subtopic section, and the
\* containers that hold them.
NoteItemsIn(sec) == Below(sec, "li")

FiguresIn(sec) == Below(sec, "figure")

NotesContainersIn(sec) == WithClass(Elements(sec.children), "notes")

CodeContainersIn(sec) == WithClass(Elements(sec.children), "codeGroup")

\* The code sample a <figure> shows: its caption and its content.
SampleShown(fig) ==
  [caption |-> TextOf(Below(fig, "figcaption")[1]),
   content |-> TextOf(Below(Below(fig, "pre")[1], "code")[1])]

(***************************************************************************)
(* Properties of the renderer, checked under RenderSpec.                   *)
(***************************************************************************)
\* C5: the navigation list has exactly one entry per topic, in Content
\* Model order; the i-th entry is a link to "#" + slugify(title of topic i)
\* labelled with that title; subtopics add no entry.
C5_NavEntryPerTopic ==
  pc = "rendered" =>
    LET entries == NavEntries
    IN /\ Len(entries) = Len(model)
       /\ \A i \in 1..Len(entries) :
            LET links == Below(entries[i], "a")
            IN /\ Len(links) = 1
               /\ links[1].props.href = <<35>> \o slugify(model[i].title)
               /\ links[1].children = << Text(model[i].title) >>

\* Two topics with different titles, the first with two subtopics, have
\* been rendered, and the navigation has two entries.
C5_Witness ==
  /\ pc = "rendered"
  /\ Len(model) = 2
  /\ model[1].title # model[2].title
  /\ Len(model[1].subtopics) = 2
  /\ Len(NavEntries) = 2

\* C6: the page has exactly N topic sections and sum(M_i) subtopic
\* sections, and the id of each is slugify of the title of the topic or
\* subtopic it renders (the title its heading shows).
C6_SectionPerTopicAndSubtopic ==
  pc = "rendered" =>
    LET articles == TopicSections
        sections == SubtopicSections
        subtopics == AllSubtopics(model)
    IN /\ Len(articles) = Len(model)
       /\ Len(sections) = SumSubtopics(model)
       /\ \A i \in 1..Len(articles) :
            /\ TextOf(Below(articles[i], "h2")[1]) = model[i].title
            /\ articles[i].props.id = slugify(model[i].title)
       /\ \A k \in 1..Len(sections) :
            /\ TextOf(Below(sections[k], "h3")[1]) = subtopics[k].title
            /\ sections[k].props.id = slugify(subtopics[k].title)

\* Two topics with two subtopics and one subtopic have been rendered.
C6_Witness ==
  /\ pc = "rendered"
  /\ Len(model) = 2
  /\ Len(model[1].subtopics) = 2
  /\ Len(model[2].subtopics) = 1
  /\ Len(SubtopicSections) = 3

\* The ids of all sections of the page, topic sections first.
SectionIds ==
  LET articles == TopicSections
      sections == SubtopicSections
  IN [i \in 1..Len(articles) |-> articles[i].props.id]
     \o [k \in 1..Len(sections) |-> sections[k].props.id]

\* C7: in the authored Content Model every title has a non-empty slug and
\* no two titles share a slug, so that no two rendered sections share an id.
C7_AuthoredSlugsUnique ==
  (pc = "rendered" /\ model = topics) =>
    LET titles == TitlesOf(model)
        slugOf == [t \in titles |-> slugify(t)]
        ids == SectionIds
    IN /\ \A t \in titles : slugOf[t] # <<>>
       /\ \A t, u \in titles : slugOf[t] = slugOf[u] => t = u
       /\ Len(ids) = Len(model) + SumSubtopics(model)
       /\ \A i \in 1..Len(ids) : ids[i] # <<>>
       /\ \A i, j \in 1..Len(ids) : ids[i] = ids[j] => i = j

\* The authored Content Model has been rendered, with a section for each
\* of its topics and subtopics.
C7_Witness ==
  /\ pc = "rendered"
  /\ model = topics
  /\ Len(TopicSections) > 1
  /\ Len(SubtopicSections) > Len(TopicSections)

\* C8: a subtopic with no notes field renders no note item, and a subtopic
\* whose code field is an empty list renders no code figure.
C8_NothingRenderedForMissingOrEmpty ==
  pc = "rendered" =>
    LET sections == SubtopicSections
        subtopics == AllSubtopics(model)
    IN \A k \in 1..Len(sections) :
         LET subtopic == subtopics[k]
             sec == sections[k]
         IN /\ ~HasField(subtopic, "notes") => Len(NoteItemsIn(sec)) = 0
            /\ (HasField(subtopic, "code") /\ Len(subtopic.code) = 0)
                 => Len(FiguresIn(sec)) = 0

\* A subtopic without a notes field and a subtopic with an empty code list
\* have been rendered side by side.
C8_Witness ==
  /\ pc = "rendered"
  /\ \E k \in 1..Len(SubtopicSections) :
       ~HasField(AllSubtopics(model)[k], "notes")
  /\ \E k \in 1..Len(SubtopicSections) :
       /\ HasField(AllSubtopics(model)[k], "code")
       /\ Len(AllSubtopics(model)[k].code) = 0

\* A subtopic has no notes (no code) when the field is absent or empty.
HasNone(subtopic, f) == ~HasField(subtopic, f) \/ Len(subtopic[f]) = 0

\* C9: the notes list container is left out of a subtopic's section when
\* the subtopic has no notes, and the code group container when it has no
\* code samples, whether the field is absent or an empty list.
C9_ContainersOmittedWhenNone ==
  pc = "rendered" =>
    LET sections == SubtopicSections
        subtopics == AllSubtopics(model)
    IN \A k \in 1..Len(sections) :
         LET subtopic == subtopics[k]
             sec == sections[k]
         IN /\ HasNone(subtopic, "notes") => Len(NotesContainersIn(sec)) = 0
            /\ HasNone(subtopic, "code") => Len(CodeContainersIn(sec)) = 0

\* C10: the note items of a subtopic's section are the subtopic's notes and
\* its code figures show the subtopic's code samples, in the same order and
\* number, each caption and content code unit for code unit.
C10_NotesAndCodeVerbatim ==
  pc = "rendered" =>
    LET sections == SubtopicSections
        subtopics == AllSubtopics(model)
    IN \A k \in 1..Len(sections) :
         LET subtopic == subtopics[k]
             items == NoteItemsIn(sections[k])
             figures == FiguresIn(sections[k])
             notes == IF HasField(subtopic, "notes") THEN subtopic.notes ELSE <<>>
             code == IF HasField(subtopic, "code") THEN subtopic.code ELSE <<>>
         IN /\ Len(items) = Len(notes)
            /\ \A i \in 1..Len(items) : items[i].children = << Text(notes[i]) >>
            /\ Len(figures) = Len(code)
            /\ \A i \in 1..Len(figures) : SampleShown(figures[i]) = code[i]

\* A subtopic with two different notes and two code samples, the first of
\* which starts with blanks and ends with a newline, has been rendered.
C10_Witness ==
  /\ pc = "rendered"
  /\ \E k \in 1..Len(SubtopicSections) :
       LET subtopic == AllSubtopics(model)[k]
       IN /\ HasField(subtopic, "notes")
          /\ HasField(subtopic, "code")
          /\ Len(subtopic.notes) = 2
          /\ subtopic.notes[1] # subtopic.notes[2]
          /\ Len(subtopic.code) = 2
          /\ IsBlank(Head(subtopic.code[1].content))
          /\ Len(FiguresIn(SubtopicSections[k])) = 2


\* The subtopic sections inside one topic section, in document order.
SubtopicSectionsIn(article) ==
  WithClass(Below(article, "section"), "subtopic")

\* The children of a subtopic section come in the order heading, summary,
\* notes list, code group: the first two are the <h3> with the title and
\* the <p> with the summary, each later child is a notes list or a code
\* group, and no code group stands before a notes list.
InWalkOrder(sec, subtopic) ==
  LET kids == sec.children
  IN /\ Len(kids) >= 2
     /\ kids[1].tag = "h3" /\ kids[1].children = << Text(subtopic.title) >>
     /\ kids[2].tag = "p" /\ kids[2].children = << Text(subtopic.summary) >>
     /\ \A a \in 3..Len(kids) :
          HasClass(kids[a], "notes") \/ HasClass(kids[a], "codeGroup")
     /\ \A a, b \in 3..Len(kids) :
          (HasClass(kids[a], "codeGroup") /\ HasClass(kids[b], "notes"))
            => b < a

\* C11: the walk is depth-first in Content Model order: the topic sections
\* follow the order of the topics; the i-th topic section holds exactly the
\* sections of the i-th topic's subtopics, in their order; inside a
\* subtopic section heading and summary come before the notes and the notes
\* before the code; no subtopic section stands outside its topic's section.
C11_DepthFirstInModelOrder ==
  pc = "rendered" =>
    LET articles == TopicSections
    IN /\ Len(articles) = Len(model)
       /\ Len(SubtopicSections) = SumSubtopics(model)
       /\ \A i \in 1..Len(articles) :
            LET inside == SubtopicSectionsIn(articles[i])
                owned == model[i].subtopics
            IN /\ TextOf(Below(articles[i], "h2")[1]) = model[i].title
               /\ Len(Below(articles[i], "article")) = 0
               /\ Len(inside) = Len(owned)
               /\ \A j \in 1..Len(inside) :
                    /\ inside[j].props.id = slugify(owned[j].title)
                    /\ InWalkOrder(inside[j], owned[j])
                    /\ Len(NoteItemsIn(inside[j]))
                         = IF HasField(owned[j], "notes")
                           THEN Len(owned[j].notes) ELSE 0

\* Two topics with different titles have been rendered, the first with two
\* different subtopics, one of which has both notes and code samples.
C11_Witness ==
  /\ pc = "rendered"
  /\ Len(model) = 2
  /\ model[1].title # model[2].title
  /\ Len(model[1].subtopics) = 2
  /\ Len(model[2].subtopics) > 0
  /\ model[1].subtopics[1].title # model[1].subtopics[2].title
  /\ \E j \in 1..2 :
       /\ HasField(model[1].subtopics[j], "notes")
       /\ HasField(model[1].subtopics[j], "code")
       /\ Len(model[1].subtopics[j].notes) > 0
       /\ Len(model[1].subtopics[j].code) > 0
  /\ Len(SubtopicSectionsIn(TopicSections[1])) = 2

\* The titles of a Content Model, one per topic and subtopic: the topics'
\* first, then the subtopics', as SectionIds lists the sections.
AllTitles(ts) ==
  [i \in 1..Len(ts) |-> ts[i].title]
  \o [k \in 1..SumSubtopics(ts) |-> AllSubtopics(ts)[k].title]

\* Some title has the empty slug, or two of the titles have the same slug.
HasSlugDefect(ts) ==
  LET titles == AllTitles(ts)
      slugs == [i \in 1..Len(titles) |-> slugify(titles[i])]
  IN \/ \E i \in 1..Len(slugs) : slugs[i] = <<>>
     \/ \E i, j \in 1..Len(slugs) : i # j /\ slugs[i] = slugs[j]

\* C12: a title with an empty slug, or two titles with the same slug, is a
\* validation failure: rendering fails instead of producing a document, so
\* no document with an empty or a repeated section id is ever produced.
C12_DefectiveTitlesRejected ==
  (pc = "rendered" /\ HasSlugDefect(model)) =>
    LET ids == SectionIds
    IN /\ \A i \in 1..Len(ids) : ids[i] # <<>>
       /\ \A i, j \in 1..Len(ids) : ids[i] = ids[j] => i = j

\* The elements of the page that carry an id, in document order.
ElementsWithId ==
  SelectSeq(Elements(page), LAMBDA e : HasField(e.props, "id"))

\* C13: in the rendered authored Content Model every navigation link
\* resolves: the fragment of the i-th link is the id of exactly one element
\* of the page, and that element is the section of the i-th topic.
C13_NavLinksResolve ==
  (pc = "rendered" /\ model = topics) =>
    LET entries == NavEntries
        articles == TopicSections
        anchored == ElementsWithId
    IN /\ Len(entries) = Len(model)
       /\ Len(articles) = Len(model)
       /\ \A i \in 1..Len(entries) :
            LET href == Below(entries[i], "a")[1].props.href
                targets ==
                  SelectSeq(anchored, LAMBDA e : <<35>> \o e.props.id = href)
            IN /\ Len(href) > 1
               /\ Head(href) = 35
               /\ Len(targets) = 1
               /\ targets[1] = articles[i]
               /\ targets[1].tag = "article"
               /\ TextOf(Below(targets[1], "h2")[1]) = model[i].title

\* The authored Content Model has been rendered: its navigation has an
\* entry for each of its topics, more than one, and the page has more
\* elements with an id than navigation entries.
C13_Witness ==
  /\ pc = "rendered"
  /\ model = topics
  /\ Len(NavEntries) = Len(topics)
  /\ Len(NavEntries) > 1
  /\ Len(ElementsWithId) > Len(NavEntries)

(***************************************************************************)
(* What slugify keeps, checked under Spec.                                 *)
(***************************************************************************)
\* The indices of s whose code unit satisfies Keep, in increasing order.
IndicesWhere(s, Keep(_)) ==
  SelectSeq([i \in 1..Len(s) |-> i], LAMBDA i : Keep(s[i]))

IsNotHyphen(c) == c # 45

\* C14: slugify neither drops, adds nor reorders letters and digits: the
\* slug without its hyphens is the lowercased input without the code units
\* outside [a-z0-9], and two neighbouring letters or digits of the slug have
\* a hyphen between them exactly when at least one code unit outside
\* [a-z0-9] stood between them in the lowercased input.
C14_KeepsLettersAndDigits ==
  pc # "ready" =>
    LET lowered == toLowerCase(value)
        from == IndicesWhere(lowered, IsSlugChar)
        to == IndicesWhere(slug, IsNotHyphen)
    IN /\ SelectSeq(slug, IsNotHyphen) = SelectSeq(lowered, IsSlugChar)
       /\ Len(to) = Len(from)
       /\ \A k \in 1..(Len(to) - 1) :
            (\E h \in (to[k] + 1)..(to[k + 1] - 1) : slug[h] = 45)
              <=> (from[k + 1] > from[k] + 1)

\* An input with a capital letter, with two letters or digits side by side
\* and with two separated by more than one other code unit has been
\* slugified.
C14_Witness ==
  /\ pc = "done"
  /\ \E i \in 1..Len(value) : value[i] \in 65..90
  /\ LET lowered == toLowerCase(value)
         from == IndicesWhere(lowered, IsSlugChar)
     IN /\ \E k \in 1..(Len(from) - 1) : from[k + 1] = from[k] + 1
        /\ \E k \in 1..(Len(from) - 1) : from[k + 1] > from[k] + 2
  /\ \E h \in 1..Len(slug) : slug[h] = 45

====
